---- MODULE Spec2Model ----
(***************************************************************************)
(* Board representation and move layer of the shogi engine:                *)
(* PositionBase + StateInfo stack (src/src/position.rs) and the move       *)
(* generators (src/src/movegen.rs).                                        *)
(*                                                                         *)
(* Squares are 0..80 in column-major order (file 0 = file "1", rank 0 =    *)
(* rank "a").  A bitboard is modelled as the set of its squares.  Pieces,  *)
(* piece types, colours and moves keep the integer encodings of the code.  *)
(* A Zobrist key is modelled as the set of the table entries xor-ed into   *)
(* it (xor = symmetric difference), i.e. the table entries are taken to be *)
(* linearly independent 64-bit words; Zobrist::COLOR is its own entry.     *)
(***************************************************************************)
EXTENDS Integers, Sequences, FiniteSets, TLC

VARIABLES
    base,      \* PositionBase: board, by_type_bb, by_color_bb, golds_bb, hands, game_ply, king_squares, side_to_move
    states,    \* Vec<StateInfo>, the last element is st()
    nodes,     \* the AtomicI64 node counter
    moves,     \* the caller's stack of moves played (0 = null move), handed back to undo_move
    snaps,     \* history: <<base, states>> as they were before each move still on the stack
    last,      \* history: the last operation, the class of its move and what it has to restore
    mlist,     \* the MoveList filled by the last generate call, with the generator type
    sfen,      \* the sections of the SFEN input of new_from_sfen_args, split into tokens
    result,    \* "none" before construction, then "ok" or the SfenError kind
    out,       \* the value returned by the last query made on the position, with the query's name
    workers    \* the Positions made by new_from_position for the search threads, which share nodes

vars == <<base, states, nodes, moves, snaps, last, mlist, sfen, result, out, workers>>

----------------------------------------------------------------------------
(* Bounds of the model *)

\* do_move is not called once the node counter has reached MaxNodes
MaxNodes == 2
\* do_null_move is not called with MaxNullMoves null moves on the stack
MaxNullMoves == 1

----------------------------------------------------------------------------
(* types.rs: colours, piece types, pieces, squares, ranks *)

BLACK == 0
WHITE == 1
Colors == {BLACK, WHITE}
inverse(c) == 1 - c

OCCUPIED == 0
PAWN == 1
LANCE == 2
KNIGHT == 3
SILVER == 4
BISHOP == 5
ROOK == 6
GOLD == 7
KING == 8
PRO_PAWN == 9
PRO_LANCE == 10
PRO_KNIGHT == 11
PRO_SILVER == 12
HORSE == 13
DRAGON == 14
PieceTypeNum == 15
PROMOTION == 8
ALL_HAND == {PAWN, LANCE, KNIGHT, SILVER, BISHOP, ROOK, GOLD}
PieceTypes == 1..14

EMPTY == 0
Piece_new(c, pt) == pt + 16 * c
PieceType_new(pc) == pc % 16
Color_new(pc) == pc \div 16
is_promotable(pc) == PieceType_new(pc) \in {PAWN, LANCE, KNIGHT, SILVER, BISHOP, ROOK}
to_promote(pc) == pc + PROMOTION
to_demote(pc) == pc - PROMOTION
to_demote_if_possible(pt) == IF pt >= PRO_PAWN THEN pt - PROMOTION ELSE pt
is_king(pc) == PieceType_new(pc) = KING

FileNum == 9
RankNum == 9
SquareNum == 81
Sq == 0..80
File_new(sq) == sq \div 9
Rank_new(sq) == sq % 9
Square_new(f, r) == f * 9 + r
DELTA_N == 0 - 1
DELTA_S == 1

\* Rank::is_opponent_field: the three ranks farthest from c's own side
is_opponent_field(r, c) == IF c = BLACK THEN r <= 2 ELSE r >= 6
\* Rank::is_in_front_of(c, RankAsBlack k): strictly nearer to the far edge than rank k (k = 1..9)
is_in_front_of(r, c, k) == IF c = BLACK THEN r < k - 1 ELSE r > 9 - k
\* Rank::new_from_color_and_rank_as_black
rank_as_black(c, k) == IF c = BLACK THEN k - 1 ELSE 9 - k

----------------------------------------------------------------------------
(* bitboard.rs: masks and attack tables *)

Abs(x) == IF x < 0 THEN 0 - x ELSE x
Sgn(x) == IF x < 0 THEN 0 - 1 ELSE IF x > 0 THEN 1 ELSE 0
Max2(a, b) == IF a >= b THEN a ELSE b

file_mask(f) == {Square_new(f, r) : r \in 0..8}
rank_mask(r) == {Square_new(f, r) : f \in 0..8}
opponent_field_mask(c) == {s \in Sq : is_opponent_field(Rank_new(s), c)}

\* the squares reached from sq by the (file, rank) steps in ds
Steps(sq, ds) ==
    {Square_new(File_new(sq) + d[1], Rank_new(sq) + d[2]) :
        d \in {e \in ds : /\ File_new(sq) + e[1] \in 0..8
                          /\ Rank_new(sq) + e[2] \in 0..8}}

Fwd(c) == IF c = BLACK THEN 0 - 1 ELSE 1

PawnTbl == [c \in Colors |-> [sq \in Sq |-> Steps(sq, {<<0, Fwd(c)>>})]]
KnightTbl == [c \in Colors |-> [sq \in Sq |->
    Steps(sq, {<<0 - 1, 2 * Fwd(c)>>, <<1, 2 * Fwd(c)>>})]]
SilverTbl == [c \in Colors |-> [sq \in Sq |->
    Steps(sq, {<<0, Fwd(c)>>, <<0 - 1, Fwd(c)>>, <<1, Fwd(c)>>,
               <<0 - 1, 0 - Fwd(c)>>, <<1, 0 - Fwd(c)>>})]]
GoldTbl == [c \in Colors |-> [sq \in Sq |->
    Steps(sq, {<<0, Fwd(c)>>, <<0 - 1, Fwd(c)>>, <<1, Fwd(c)>>,
               <<0 - 1, 0>>, <<1, 0>>, <<0, 0 - Fwd(c)>>})]]
KingTbl == [sq \in Sq |->
    Steps(sq, {<<0, 1>>, <<0, 0 - 1>>, <<1, 0>>, <<0 - 1, 0>>,
               <<1, 1>>, <<1, 0 - 1>>, <<0 - 1, 1>>, <<0 - 1, 0 - 1>>})]

SameLine(a, b) ==
    /\ a # b
    /\ \/ File_new(a) = File_new(b)
       \/ Rank_new(a) = Rank_new(b)
       \/ Abs(File_new(a) - File_new(b)) = Abs(Rank_new(a) - Rank_new(b))

BetweenTbl == [a \in Sq |-> [b \in Sq |->
    IF ~SameLine(a, b) THEN {}
    ELSE LET df == Sgn(File_new(b) - File_new(a))
             dr == Sgn(Rank_new(b) - Rank_new(a))
             n == Max2(Abs(File_new(b) - File_new(a)), Abs(Rank_new(b) - Rank_new(a)))
         IN {Square_new(File_new(a) + k * df, Rank_new(a) + k * dr) : k \in 1..(n - 1)}]]

between_mask(a, b) == BetweenTbl[a][b]

RookPseudoTbl == [sq \in Sq |->
    {t \in Sq : t # sq /\ (File_new(t) = File_new(sq) \/ Rank_new(t) = Rank_new(sq))}]
BishopPseudoTbl == [sq \in Sq |->
    {t \in Sq : t # sq /\ Abs(File_new(t) - File_new(sq)) = Abs(Rank_new(t) - Rank_new(sq))}]
LancePseudoTbl == [c \in Colors |-> [sq \in Sq |->
    {t \in Sq : /\ File_new(t) = File_new(sq)
                /\ IF c = BLACK THEN Rank_new(t) < Rank_new(sq)
                                ELSE Rank_new(t) > Rank_new(sq)}]]

pawn_attack(c, sq) == PawnTbl[c][sq]
knight_attack(c, sq) == KnightTbl[c][sq]
silver_attack(c, sq) == SilverTbl[c][sq]
gold_attack(c, sq) == GoldTbl[c][sq]
king_attack(sq) == KingTbl[sq]
rook_pseudo_attack(sq) == RookPseudoTbl[sq]
bishop_pseudo_attack(sq) == BishopPseudoTbl[sq]
lance_pseudo_attack(c, sq) == LancePseudoTbl[c][sq]

\* slider attacks under an occupancy: the ray squares up to and including the first blocker
rook_attack(sq, occ) == {t \in RookPseudoTbl[sq] : BetweenTbl[sq][t] \cap occ = {}}
bishop_attack(sq, occ) == {t \in BishopPseudoTbl[sq] : BetweenTbl[sq][t] \cap occ = {}}
lance_attack(c, sq, occ) == {t \in LancePseudoTbl[c][sq] : BetweenTbl[sq][t] \cap occ = {}}

\* AttackTable::attack(pt, c, sq, occupied)
attack(pt, c, sq, occ) ==
    CASE pt = PAWN -> pawn_attack(c, sq)
      [] pt = LANCE -> lance_attack(c, sq, occ)
      [] pt = KNIGHT -> knight_attack(c, sq)
      [] pt = SILVER -> silver_attack(c, sq)
      [] pt = BISHOP -> bishop_attack(sq, occ)
      [] pt = ROOK -> rook_attack(sq, occ)
      [] pt \in {GOLD, PRO_PAWN, PRO_LANCE, PRO_KNIGHT, PRO_SILVER} -> gold_attack(c, sq)
      [] pt = KING -> king_attack(sq)
      [] pt = HORSE -> bishop_attack(sq, occ) \cup king_attack(sq)
      [] pt = DRAGON -> rook_attack(sq, occ) \cup king_attack(sq)
      [] OTHER -> {}

\* Relation::new(a, b).is_diag()
is_diag(a, b) ==
    a # b /\ Abs(File_new(a) - File_new(b)) = Abs(Rank_new(a) - Rank_new(b))

\* sq0, sq1, sq2 lie on one line and sq2 is not strictly between sq0 and sq1
is_aligned_and_sq2_is_not_between_sq0_and_sq1(sq0, sq1, sq2) ==
    /\ SameLine(sq0, sq1)
    /\ sq2 # sq0 /\ sq2 # sq1
    /\ SameLine(sq0, sq2)
    /\ \/ sq2 \in BetweenTbl[sq0][sq1]
       \/ sq1 \in BetweenTbl[sq0][sq2]
       \/ sq0 \in BetweenTbl[sq1][sq2]
    /\ sq2 \notin BetweenTbl[sq0][sq1]

----------------------------------------------------------------------------
(* hand.rs: a hand is modelled as its seven counters *)

Hand0 == [pt \in ALL_HAND |-> 0]
num(h, pt) == h[pt]
exist(h, pt) == h[pt] # 0
except_pawn_exist(h) == \E pt \in ALL_HAND \ {PAWN} : h[pt] # 0
plus_one(h, pt) == [h EXCEPT ![pt] = @ + 1]
minus_one(h, pt) == [h EXCEPT ![pt] = @ - 1]
hand_set(h, pt, n) == [h EXCEPT ![pt] = n]
\* Hand::is_equal_or_superior: every counter is at least the other hand's
is_equal_or_superior(h, other) == \A pt \in ALL_HAND : h[pt] >= other[pt]

----------------------------------------------------------------------------
(* piecevalue.rs *)

PieceValueTbl == <<90, 315, 405, 495, 855, 990, 540, 15000, 540, 540, 540, 540, 945, 1395>>
piece_type_value(pt) == PieceValueTbl[pt]
\* position.rs 1811: capture_piece_type_value(PieceType::KING) == Value::ZERO
capture_piece_type_value(pt) ==
    IF pt = KING THEN 0 ELSE piece_type_value(pt) + piece_type_value(to_demote_if_possible(pt))
\* the value of capturing what is on a square; nothing for an empty square
capture_piece_value(pc) == IF pc = EMPTY THEN 0 ELSE capture_piece_type_value(PieceType_new(pc))
promote_piece_type_value(pt) == piece_type_value(pt + PROMOTION) - piece_type_value(pt)

----------------------------------------------------------------------------
(* Zobrist keys (position.rs) *)

Kxor(a, b) == (a \ b) \cup (b \ a)
Zobrist_COLOR == {0}
get_field(pt, sq, c) == {1 + (pt * SquareNum + sq) * 2 + c}
get_hand(pt, i, c) == {1 + PieceTypeNum * SquareNum * 2 + (pt * 19 + i) * 2 + c}

RECURSIVE XorAll(_, _)
\* the xor of the keys f[x], x in S
XorAll(f, S) ==
    IF S = {} THEN {}
    ELSE LET x == CHOOSE y \in S : TRUE IN Kxor(f[x], XorAll(f, S \ {x}))

----------------------------------------------------------------------------
(* PositionBase accessors and mutators *)

pieces_c(pos, c) == pos.by_color_bb[c]
pieces_p(pos, pt) == pos.by_type_bb[pt]
pieces_cp(pos, c, pt) == pos.by_color_bb[c] \cap pos.by_type_bb[pt]
pieces_pp(pos, pt0, pt1) == pos.by_type_bb[pt0] \cup pos.by_type_bb[pt1]
pieces_ppp(pos, pt0, pt1, pt2) == pieces_pp(pos, pt0, pt1) \cup pos.by_type_bb[pt2]
pieces_ppppp(pos, pt0, pt1, pt2, pt3, pt4) ==
    pieces_ppp(pos, pt0, pt1, pt2) \cup pieces_pp(pos, pt3, pt4)
pieces_golds(pos) == pos.golds_bb
set_golds_bb(pos) ==
    [pos EXCEPT !.golds_bb = pieces_ppppp(pos, GOLD, PRO_PAWN, PRO_LANCE, PRO_KNIGHT, PRO_SILVER)]
piece_on(pos, sq) == pos.board[sq]
occupied_bb(pos) == pos.by_type_bb[OCCUPIED]
empty_bb(pos) == Sq \ occupied_bb(pos)
hand(pos, c) == pos.hands[c]
side_to_move(pos) == pos.side_to_move
king_square(pos, c) == pos.king_squares[c]

\* Bitboard::xor(sq)
xor(bb, sq) == IF sq \in bb THEN bb \ {sq} ELSE bb \cup {sq}
\* Bitboard::lsb_unchecked: the smallest square of a non-empty bitboard
lsb_unchecked(bb) == CHOOSE s \in bb : \A t \in bb : s <= t

xor_bbs(pos, c, pt, sq) ==
    [pos EXCEPT !.by_type_bb = [@ EXCEPT ![OCCUPIED] = xor(@, sq), ![pt] = xor(@, sq)],
                !.by_color_bb = [@ EXCEPT ![c] = xor(@, sq)]]

\* mutant of put_piece: the board array is not written
put_piece_without_board(pos, pc, sq) ==
    xor_bbs(pos, Color_new(pc), PieceType_new(pc), sq)

put_piece(pos, pc, sq) ==
    [xor_bbs(pos, Color_new(pc), PieceType_new(pc), sq) EXCEPT !.board = [@ EXCEPT ![sq] = pc]]

remove_piece(pos, pc, sq) ==
    [xor_bbs(pos, Color_new(pc), PieceType_new(pc), sq) EXCEPT !.board = [@ EXCEPT ![sq] = EMPTY]]

\* mutant of exchange_pieces: the colour bitboards are not flipped
exchange_pieces_without_color_flip(pos, pc_new, sq) ==
    LET pt_new == PieceType_new(pc_new)
        pt_old == PieceType_new(piece_on(pos, sq))
        t1 == [pos.by_type_bb EXCEPT ![pt_old] = xor(@, sq)]
        t2 == [t1 EXCEPT ![pt_new] = xor(@, sq)]
    IN [pos EXCEPT !.by_type_bb = t2, !.board = [@ EXCEPT ![sq] = pc_new]]

exchange_pieces(pos, pc_new, sq) ==
    LET pt_new == PieceType_new(pc_new)
        pc_old == piece_on(pos, sq)
        pt_old == PieceType_new(pc_old)
        color_old == Color_new(pc_old)
        color_new == inverse(color_old)
        t1 == [pos.by_type_bb EXCEPT ![pt_old] = xor(@, sq)]
        t2 == [t1 EXCEPT ![pt_new] = xor(@, sq)]
        c1 == [pos.by_color_bb EXCEPT ![color_old] = xor(@, sq)]
        c2 == [c1 EXCEPT ![color_new] = xor(@, sq)]
    IN [pos EXCEPT !.by_type_bb = t2, !.by_color_bb = c2, !.board = [@ EXCEPT ![sq] = pc_new]]

attackers_to(pos, color_of_attackers, to, occupied) ==
    LET opp == inverse(color_of_attackers)
        golds == pieces_golds(pos)
    IN ((pawn_attack(opp, to) \cap pieces_p(pos, PAWN))
        \cup (lance_attack(opp, to, occupied) \cap pieces_p(pos, LANCE))
        \cup (knight_attack(opp, to) \cap pieces_p(pos, KNIGHT))
        \cup (silver_attack(opp, to) \cap pieces_ppp(pos, SILVER, KING, DRAGON))
        \cup (gold_attack(opp, to) \cap (golds \cup pieces_pp(pos, KING, HORSE)))
        \cup (bishop_attack(to, occupied) \cap pieces_pp(pos, BISHOP, HORSE))
        \cup (rook_attack(to, occupied) \cap pieces_pp(pos, ROOK, DRAGON)))
       \cap pieces_c(pos, color_of_attackers)

attackers_to_except_king(pos, color_of_attackers, to, occupied) ==
    LET opp == inverse(color_of_attackers)
        golds == pieces_golds(pos)
    IN ((pawn_attack(opp, to) \cap pieces_p(pos, PAWN))
        \cup (lance_attack(opp, to, occupied) \cap pieces_p(pos, LANCE))
        \cup (knight_attack(opp, to) \cap pieces_p(pos, KNIGHT))
        \cup (silver_attack(opp, to) \cap pieces_pp(pos, SILVER, DRAGON))
        \cup (gold_attack(opp, to) \cap (golds \cup pieces_p(pos, HORSE)))
        \cup (bishop_attack(to, occupied) \cap pieces_pp(pos, BISHOP, HORSE))
        \cup (rook_attack(to, occupied) \cap pieces_pp(pos, ROOK, DRAGON)))
       \cap pieces_c(pos, color_of_attackers)

attackers_to_except_king_lance_pawn(pos, color_of_attackers, to, occupied) ==
    LET opp == inverse(color_of_attackers)
        golds == pieces_golds(pos)
    IN ((knight_attack(opp, to) \cap pieces_p(pos, KNIGHT))
        \cup (silver_attack(opp, to) \cap pieces_pp(pos, SILVER, DRAGON))
        \cup (gold_attack(opp, to) \cap (golds \cup pieces_p(pos, HORSE)))
        \cup (bishop_attack(to, occupied) \cap pieces_pp(pos, BISHOP, HORSE))
        \cup (rook_attack(to, occupied) \cap pieces_pp(pos, ROOK, DRAGON)))
       \cap pieces_c(pos, color_of_attackers)

\* slider_blockers_and_pinners marking every sniper with one piece between as a
\* pinner, whatever the colour of that piece
slider_blockers_and_pinners_of_any_color(pos, sliders, color_of_sliders, sq) ==
    LET opp_of_sliders == inverse(color_of_sliders)
        snipers == ((lance_pseudo_attack(opp_of_sliders, sq) \cap pieces_p(pos, LANCE))
                    \cup (bishop_pseudo_attack(sq) \cap pieces_pp(pos, BISHOP, HORSE))
                    \cup (rook_pseudo_attack(sq) \cap pieces_pp(pos, ROOK, DRAGON)))
                   \cap sliders
        pseudo_blockers(s) == between_mask(sq, s) \cap occupied_bb(pos)
        pinning == {s \in snipers : Cardinality(pseudo_blockers(s)) = 1}
    IN <<UNION {pseudo_blockers(s) : s \in pinning}, pinning>>

\* returns <<blockers of both colours, pinners>>
slider_blockers_and_pinners(pos, sliders, color_of_sliders, sq) ==
    LET opp_of_sliders == inverse(color_of_sliders)
        snipers == ((lance_pseudo_attack(opp_of_sliders, sq) \cap pieces_p(pos, LANCE))
                    \cup (bishop_pseudo_attack(sq) \cap pieces_pp(pos, BISHOP, HORSE))
                    \cup (rook_pseudo_attack(sq) \cap pieces_pp(pos, ROOK, DRAGON)))
                   \cap sliders
        pseudo_blockers(s) == between_mask(sq, s) \cap occupied_bb(pos)
        pinning == {s \in snipers : Cardinality(pseudo_blockers(s)) = 1}
    IN <<UNION {pseudo_blockers(s) : s \in pinning},
         {s \in pinning :
             pseudo_blockers(s) \cap pieces_c(pos, Color_new(piece_on(pos, sq))) # {}}>>

----------------------------------------------------------------------------
(* CheckInfo and StateInfo *)

CheckInfo_new(pos) ==
    LET us == side_to_move(pos)
        them == inverse(us)
        ksq == king_square(pos, them)
        bishop_check_squares == bishop_attack(ksq, occupied_bb(pos))
        rook_check_squares == rook_attack(ksq, occupied_bb(pos))
        gold_check_squares == gold_attack(them, ksq)
    IN [blockers_and_pinners_for_king |->
            [c \in Colors |->
                slider_blockers_and_pinners(pos, pieces_c(pos, inverse(c)), inverse(c),
                                            king_square(pos, c))],
        check_squares |->
            [pt \in 0..14 |->
                CASE pt = PAWN -> pawn_attack(them, ksq)
                  [] pt = LANCE -> lance_attack(them, ksq, occupied_bb(pos))
                  [] pt = KNIGHT -> knight_attack(them, ksq)
                  [] pt = SILVER -> silver_attack(them, ksq)
                  [] pt = BISHOP -> bishop_check_squares
                  [] pt = ROOK -> rook_check_squares
                  [] pt \in {GOLD, PRO_PAWN, PRO_LANCE, PRO_KNIGHT, PRO_SILVER} -> gold_check_squares
                  [] pt = HORSE -> bishop_check_squares \cup king_attack(ksq)
                  [] pt = DRAGON -> rook_check_squares \cup king_attack(ksq)
                  [] OTHER -> {}]]

new_material(pos) ==
    LET brd(pt) == (Cardinality(pieces_cp(pos, BLACK, pt)) - Cardinality(pieces_cp(pos, WHITE, pt)))
                   * piece_type_value(pt)
        hnd(pt) == (num(hand(pos, BLACK), pt) - num(hand(pos, WHITE), pt)) * piece_type_value(pt)
        RECURSIVE Sum(_, _)
        Sum(f(_), S) == IF S = {} THEN 0
                        ELSE LET x == CHOOSE y \in S : TRUE IN f(x) + Sum(f, S \ {x})
    IN Sum(brd, PieceTypes \ {KING}) + Sum(hnd, ALL_HAND)

new_board_key(pos) ==
    LET k == XorAll([sq \in occupied_bb(pos) |->
                        get_field(PieceType_new(piece_on(pos, sq)), sq, Color_new(piece_on(pos, sq)))],
                    occupied_bb(pos))
    IN IF side_to_move(pos) = WHITE THEN Kxor(k, Zobrist_COLOR) ELSE k

new_hand_key(pos) ==
    LET idx == {<<pt, c, i>> \in ALL_HAND \X Colors \X (1..18) : i <= num(hand(pos, c), pt)}
    IN XorAll([x \in idx |-> get_hand(x[1], x[3], x[2])], idx)

StateInfo_new_from_position(pos) ==
    LET us == side_to_move(pos)
        them == inverse(us)
        king_sq == king_square(pos, us)
    IN [material |-> new_material(pos),
        plies_from_null |-> 0,
        continuous_checks |-> [c \in Colors |-> 0],
        board_key |-> new_board_key(pos),
        hand_key |-> new_hand_key(pos),
        hand_of_side_to_move |-> hand(pos, us),
        checkers_bb |-> attackers_to_except_king(pos, them, king_sq, occupied_bb(pos)),
        captured_piece |-> EMPTY,
        check_info |-> CheckInfo_new(pos)]

StateInfo_key(s) == Kxor(s.board_key, s.hand_key)

----------------------------------------------------------------------------
(* movegen.rs: the 32-bit move encoding *)

PROMOTE_FLAG == 128
DROP_FLAG == 256
FROM_FACTOR == 512
MOVED_PIECE_FACTOR == 65536

new_unpromote(from, to, pc) == pc * MOVED_PIECE_FACTOR + from * FROM_FACTOR + to
new_promote(from, to, pc) == PROMOTE_FLAG + new_unpromote(from, to, pc)
new_drop(pc, to) == DROP_FLAG + pc * FROM_FACTOR + to
Move_to(m) == m % 128
Move_from(m) == (m \div FROM_FACTOR) % 128
piece_dropped(m) == (m \div FROM_FACTOR) % 32
piece_type_dropped(m) == (m \div FROM_FACTOR) % 16
is_drop(m) == (m \div DROP_FLAG) % 2 = 1
is_promotion(m) == (m \div PROMOTE_FLAG) % 2 = 1
piece_moved_before_move(m) ==
    IF is_drop(m) THEN piece_dropped(m) ELSE (m \div MOVED_PIECE_FACTOR) % 32
is_capture(m, pos) == piece_on(pos, Move_to(m)) # EMPTY

----------------------------------------------------------------------------
(* Position: a record [base, states]; st(p) is the top of the state stack *)

st(p) == p.states[Len(p.states)]
checkers(p) == st(p).checkers_bb
in_check(p) == checkers(p) # {}
blockers_for_king(p, color_of_king) ==
    st(p).check_info.blockers_and_pinners_for_king[color_of_king][1]
pinners_for_king(p, color_of_king) ==
    st(p).check_info.blockers_and_pinners_for_king[color_of_king][2]

\* Relation::new(a, b): the line from a to b, named by its direction
Relation_new(a, b) ==
    LET df == File_new(b) - File_new(a)
        dr == Rank_new(b) - Rank_new(a)
    IN CASE a = b -> "MISC"
         [] df = 0 /\ dr > 0 -> "FILE_NS"
         [] df = 0 /\ dr < 0 -> "FILE_SN"
         [] dr = 0 /\ df > 0 -> "RANK_EW"
         [] dr = 0 /\ df < 0 -> "RANK_WE"
         [] df = dr /\ df > 0 -> "DIAG_NESW"
         [] df = dr /\ df < 0 -> "DIAG_SWNE"
         [] df = 0 - dr /\ df > 0 -> "DIAG_SENW"
         [] df = 0 - dr /\ df < 0 -> "DIAG_NWSE"
         [] OTHER -> "MISC"

attackers_to_both_color(pos, to, occupied) ==
    LET golds == pieces_golds(pos)
    IN (((pawn_attack(BLACK, to) \cap pieces_p(pos, PAWN))
         \cup (lance_attack(BLACK, to, occupied) \cap pieces_p(pos, LANCE))
         \cup (knight_attack(BLACK, to) \cap pieces_p(pos, KNIGHT))
         \cup (silver_attack(BLACK, to) \cap pieces_p(pos, SILVER))
         \cup (gold_attack(BLACK, to) \cap golds))
        \cap pieces_c(pos, WHITE))
       \cup (((pawn_attack(WHITE, to) \cap pieces_p(pos, PAWN))
              \cup (lance_attack(WHITE, to, occupied) \cap pieces_p(pos, LANCE))
              \cup (knight_attack(WHITE, to) \cap pieces_p(pos, KNIGHT))
              \cup (silver_attack(WHITE, to) \cap pieces_p(pos, SILVER))
              \cup (gold_attack(WHITE, to) \cap golds))
             \cap pieces_c(pos, BLACK))
       \cup (bishop_attack(to, occupied) \cap pieces_pp(pos, BISHOP, HORSE))
       \cup (rook_attack(to, occupied) \cap pieces_pp(pos, ROOK, DRAGON))
       \cup (king_attack(to) \cap pieces_ppp(pos, KING, HORSE, DRAGON))

\* the order in which min_attacker looks for an attacker
MinAttackerOrder ==
    <<PAWN, LANCE, KNIGHT, PRO_PAWN, PRO_LANCE, PRO_KNIGHT, SILVER, PRO_SILVER,
      GOLD, BISHOP, HORSE, ROOK, DRAGON>>

\* returns the piece type found with the updated occupied and attackers
min_attacker(pos, to, side_to_move_attackers, occupied, attackers) ==
    LET found == {i \in DOMAIN MinAttackerOrder :
                     side_to_move_attackers \cap pieces_p(pos, MinAttackerOrder[i]) # {}}
        Take(i) ==
            LET sq == lsb_unchecked(side_to_move_attackers \cap pieces_p(pos, MinAttackerOrder[i]))
                occ == xor(occupied, sq)
                rel == Relation_new(sq, to)
                behind ==
                    CASE rel = "MISC" -> {}
                      [] rel = "FILE_NS" ->
                           lance_attack(BLACK, to, occ)
                             \cap pieces_c(pos, WHITE) \cap pieces_ppp(pos, ROOK, DRAGON, LANCE)
                      [] rel = "FILE_SN" ->
                           lance_attack(WHITE, to, occ)
                             \cap pieces_c(pos, BLACK) \cap pieces_ppp(pos, ROOK, DRAGON, LANCE)
                      [] rel \in {"RANK_EW", "RANK_WE"} ->
                           rook_attack(to, occ) \cap pieces_pp(pos, ROOK, DRAGON)
                      [] OTHER ->
                           bishop_attack(to, occ) \cap pieces_pp(pos, BISHOP, HORSE)
            IN [pt |-> PieceType_new(piece_on(pos, sq)),
                occupied |-> occ,
                attackers |-> (attackers \cup behind) \cap occ]
    IN IF found = {}
       THEN [pt |-> KING, occupied |-> occupied, attackers |-> attackers]
       ELSE Take(CHOOSE i \in found : \A j \in found : i <= j)

\* the exchange loop of see_ge: returns the side to move on leaving the loop and
\* one record per turn of the loop with the side to capture, the simulated
\* occupancy, the attackers and the attackers that side may capture with
RECURSIVE see_ge_loop(_, _, _, _, _, _, _)
see_ge_loop(p, to, stm, occupied, attackers, balance, turns) ==
    LET all == attackers \cap pieces_c(p.base, stm)
        stm_attackers ==
            IF pinners_for_king(p, inverse(stm)) \ occupied = {}
            THEN all \ blockers_for_king(p, stm)
            ELSE all
        turn == [side_to_move |-> stm, occupied |-> occupied,
                 attackers |-> attackers,
                 side_to_move_attackers |-> stm_attackers]
        Capture(r) ==
            LET next == inverse(stm)
                bal == (0 - balance) - 1 - capture_piece_type_value(r.pt)
            IN IF bal >= 0
               THEN [side_to_move |->
                         IF r.pt = KING /\ r.attackers \cap pieces_c(p.base, next) # {}
                         THEN inverse(next) ELSE next,
                     turns |-> Append(turns, turn)]
               ELSE see_ge_loop(p, to, next, r.occupied, r.attackers, bal,
                                Append(turns, turn))
    IN IF stm_attackers = {}
       THEN [side_to_move |-> stm, turns |-> Append(turns, turn)]
       ELSE Capture(min_attacker(p.base, to, stm_attackers, occupied, attackers))

\* see_ge with the turns of its exchange loop
see_ge_turns(p, m, threshold) ==
    LET to == Move_to(m)
        balance0 == capture_piece_value(piece_on(p.base, to)) - threshold
        next_victim == IF is_drop(m) THEN piece_type_dropped(m)
                       ELSE PieceType_new(piece_on(p.base, Move_from(m)))
        balance == balance0 - capture_piece_type_value(next_victim)
        occ0 == xor(occupied_bb(p.base), to)
        occupied == IF is_drop(m) THEN occ0 ELSE xor(occ0, Move_from(m))
        us == side_to_move(p.base)
        Loop(attackers) ==
            LET r == see_ge_loop(p, to, inverse(us), occupied, attackers, balance, <<>>)
            IN [result |-> us # r.side_to_move, turns |-> r.turns]
    IN IF balance0 < 0 THEN [result |-> FALSE, turns |-> <<>>]
       ELSE IF balance >= 0 THEN [result |-> TRUE, turns |-> <<>>]
       ELSE Loop(attackers_to_both_color(p.base, to, occupied) \cap occupied)

see_ge(p, m, threshold) == see_ge_turns(p, m, threshold).result

\* mutant of is_drop_pawn_mate: no pawn drop is a mate
is_drop_pawn_mate_never(p, color_of_pawn, sq_of_pawn) == FALSE

\* is_drop_pawn_mate that lets every piece pinned to the defending king capture the pawn
is_drop_pawn_mate_with_pinned_captures(p, color_of_pawn, sq_of_pawn) ==
    LET pos == p.base
        color_of_difence == inverse(color_of_pawn)
        capture_candidates ==
            attackers_to_except_king_lance_pawn(pos, color_of_difence, sq_of_pawn, occupied_bb(pos))
        ksq == king_square(pos, color_of_difence)
        king_escape_candidates ==
            xor(king_attack(ksq) \ pieces_c(pos, color_of_difence), sq_of_pawn)
        occupied_after_drop_pawn == xor(occupied_bb(pos), sq_of_pawn)
    IN IF attackers_to(pos, color_of_pawn, sq_of_pawn, occupied_bb(pos)) = {} THEN FALSE
       ELSE IF capture_candidates # {} THEN FALSE
       ELSE \A to \in king_escape_candidates :
                attackers_to(pos, color_of_pawn, to, occupied_after_drop_pawn) # {}

is_drop_pawn_mate(p, color_of_pawn, sq_of_pawn) ==
    LET pos == p.base
        color_of_difence == inverse(color_of_pawn)
        capture_candidates ==
            attackers_to_except_king_lance_pawn(pos, color_of_difence, sq_of_pawn, occupied_bb(pos))
        pinned == blockers_for_king(p, color_of_difence)
        not_pinned_for_pawn_capture == (Sq \ pinned) \cup file_mask(File_new(sq_of_pawn))
        can_captures == capture_candidates \cap not_pinned_for_pawn_capture
        ksq == king_square(pos, color_of_difence)
        king_escape_candidates ==
            xor(king_attack(ksq) \ pieces_c(pos, color_of_difence), sq_of_pawn)
        occupied_after_drop_pawn == xor(occupied_bb(pos), sq_of_pawn)
    IN IF attackers_to(pos, color_of_pawn, sq_of_pawn, occupied_bb(pos)) = {} THEN FALSE
       ELSE IF can_captures # {} THEN FALSE
       ELSE \A to \in king_escape_candidates :
                attackers_to(pos, color_of_pawn, to, occupied_after_drop_pawn) # {}

\* Square::add_unchecked followed by a comparison with a square of the board
add_unchecked(sq, delta) == sq + delta

pseudo_legal(p, m, IS_SEARCHING) ==
    LET pos == p.base
        us == side_to_move(pos)
        to == Move_to(m)
    IN IF is_drop(m)
       THEN LET pc_dropped == piece_dropped(m)
                pt_dropped == PieceType_new(pc_dropped)
                chk == checkers(p)
            IN /\ Color_new(pc_dropped) = us
               /\ pt_dropped \in ALL_HAND
               /\ exist(hand(pos, us), pt_dropped)
               /\ to \in Sq
               /\ piece_on(pos, to) = EMPTY
               /\ CASE Cardinality(chk) = 0 -> TRUE
                    [] Cardinality(chk) = 1 ->
                         to \in between_mask(lsb_unchecked(chk), king_square(pos, us))
                    [] OTHER -> FALSE
               /\ pt_dropped = PAWN =>
                    /\ pieces_cp(pos, us, PAWN) \cap file_mask(File_new(to)) = {}
                    /\ ~(/\ add_unchecked(to, IF us = BLACK THEN DELTA_N ELSE DELTA_S)
                               = king_square(pos, inverse(us))
                         /\ is_drop_pawn_mate(p, us, to))
       ELSE LET from == Move_from(m)
            IN /\ from \in Sq /\ to \in Sq
               /\ LET pc_from == piece_on(pos, from)
                      pt_from == PieceType_new(pc_from)
                      chk == checkers(p)
                      r == Rank_new(to)
                  IN /\ pc_from # EMPTY
                     /\ pc_from = piece_moved_before_move(m)
                     /\ Color_new(pc_from) = us
                     /\ to \notin pieces_c(pos, us)
                     /\ to \in attack(pt_from, us, from, occupied_bb(pos))
                     /\ IF is_promotion(m)
                        THEN /\ is_promotable(pc_from)
                             /\ IS_SEARCHING
                                \/ is_opponent_field(Rank_new(from), us)
                                \/ is_opponent_field(r, us)
                        ELSE CASE pt_from = PAWN ->
                                    IF IS_SEARCHING THEN ~is_opponent_field(r, us)
                                    ELSE ~is_in_front_of(r, us, 2)
                               [] pt_from = LANCE ->
                                    IF IS_SEARCHING
                                    THEN ~(\/ is_in_front_of(r, us, 3)
                                           \/ (is_in_front_of(r, us, 4) /\ ~is_capture(m, pos)))
                                    ELSE ~is_in_front_of(r, us, 2)
                               [] pt_from = KNIGHT -> ~is_in_front_of(r, us, 3)
                               [] pt_from \in {BISHOP, ROOK} ->
                                    ~(/\ IS_SEARCHING
                                      /\ \/ is_opponent_field(Rank_new(from), us)
                                         \/ is_opponent_field(r, us))
                               [] OTHER -> TRUE
                     /\ chk # {} =>
                          IF pt_from = KING
                          THEN attackers_to(pos, inverse(us), to, xor(occupied_bb(pos), from)) = {}
                          ELSE /\ Cardinality(chk) = 1
                               /\ to \in between_mask(lsb_unchecked(chk), king_square(pos, us))
                                         \cup chk

\* legal that lets a blocker of the own king leave the line of the pin
legal_without_pin_test(p, m) ==
    LET pos == p.base
        from == Move_from(m)
        us == side_to_move(pos)
    IN IF is_drop(m) THEN TRUE
       ELSE IF PieceType_new(piece_on(pos, from)) = KING
       THEN attackers_to(pos, inverse(us), Move_to(m), xor(occupied_bb(pos), from)) = {}
       ELSE TRUE

legal(p, m) ==
    LET pos == p.base
        from == Move_from(m)
        us == side_to_move(pos)
    IN IF is_drop(m) THEN TRUE
       ELSE IF PieceType_new(piece_on(pos, from)) = KING
       THEN attackers_to(pos, inverse(us), Move_to(m), xor(occupied_bb(pos), from)) = {}
       ELSE \/ from \notin blockers_for_king(p, us)
            \/ is_aligned_and_sq2_is_not_between_sq0_and_sq1(from, Move_to(m), king_square(pos, us))

\* gives_check that tests the direct check only
gives_check_without_discovered_check(p, m) ==
    LET pos == p.base
        to == Move_to(m)
    IN IF is_drop(m)
       THEN to \in st(p).check_info.check_squares[piece_type_dropped(m)]
       ELSE LET pc_from == piece_on(pos, Move_from(m))
                pc_to == IF is_promotion(m) THEN to_promote(pc_from) ELSE pc_from
            IN to \in st(p).check_info.check_squares[PieceType_new(pc_to)]

gives_check(p, m) ==
    LET pos == p.base
        to == Move_to(m)
    IN IF is_drop(m)
       THEN to \in st(p).check_info.check_squares[piece_type_dropped(m)]
       ELSE LET from == Move_from(m)
                pc_from == piece_on(pos, from)
                pc_to == IF is_promotion(m) THEN to_promote(pc_from) ELSE pc_from
                them == inverse(side_to_move(pos))
            IN \/ to \in st(p).check_info.check_squares[PieceType_new(pc_to)]
               \/ /\ from \in blockers_for_king(p, them)
                  /\ ~is_aligned_and_sq2_is_not_between_sq0_and_sq1(from, to, king_square(pos, them))

----------------------------------------------------------------------------
(* Position::do_move / undo_move / do_null_move / undo_null_move *)

\* StateInfo::new_from_old_state: three fields are copied, the others are written by do_move
StateInfo_new_from_old_state(old_state) ==
    [material |-> old_state.material,
     plies_from_null |-> old_state.plies_from_null,
     continuous_checks |-> old_state.continuous_checks]

do_move(p, m, gives_check_arg) ==
    LET old == st(p)
        pos0 == p.base
        us == side_to_move(pos0)
        them == inverse(us)
        to == Move_to(m)
        key0 == Kxor(old.board_key, Zobrist_COLOR)
        sgn == IF us = BLACK THEN 1 ELSE 0 - 1
        fresh == StateInfo_new_from_old_state(old)
        r == IF is_drop(m)
             THEN LET pc_to == piece_dropped(m)
                      pt_to == PieceType_new(pc_to)
                      hand_num == num(hand(pos0, us), pt_to)
                      pos1 == [pos0 EXCEPT !.hands = [@ EXCEPT ![us] = minus_one(@, pt_to)]]
                      pos2 == set_golds_bb(put_piece(pos1, pc_to, to))
                  IN [pos |-> pos2,
                      board_key |-> Kxor(key0, get_field(pt_to, to, us)),
                      hand_key |-> Kxor(old.hand_key, get_hand(pt_to, hand_num, us)),
                      material |-> fresh.material,
                      checkers_bb |-> IF gives_check_arg THEN {to} ELSE {},
                      captured_piece |-> EMPTY]
             ELSE LET from == Move_from(m)
                      pc_from == piece_on(pos0, from)
                      pt_from == PieceType_new(pc_from)
                      pos1 == remove_piece(pos0, pc_from, from)
                      capture == is_capture(m, pos1)
                      captured == IF capture THEN piece_on(pos1, to) ELSE EMPTY
                      pt_captured == PieceType_new(captured)
                      pt_captured_demoted == to_demote_if_possible(pt_captured)
                      pos2 == IF capture
                              THEN [xor_bbs(pos1, them, pt_captured, to)
                                      EXCEPT !.hands = [@ EXCEPT ![us] = plus_one(@, pt_captured_demoted)]]
                              ELSE pos1
                      hand_num == IF capture THEN num(hand(pos2, us), pt_captured_demoted) ELSE 0
                      key1 == IF capture THEN Kxor(key0, get_field(pt_captured, to, them)) ELSE key0
                      hkey1 == IF capture
                               THEN Kxor(old.hand_key, get_hand(pt_captured_demoted, hand_num, us))
                               ELSE old.hand_key
                      mat1 == IF capture
                              THEN fresh.material + sgn * capture_piece_type_value(pt_captured)
                              ELSE fresh.material
                      mat2 == IF is_promotion(m)
                              THEN mat1 + sgn * promote_piece_type_value(pt_from)
                              ELSE mat1
                      pc_to == IF is_promotion(m) THEN to_promote(pc_from) ELSE pc_from
                      pt_to == PieceType_new(pc_to)
                      pos3 == put_piece(pos2, pc_to, to)
                      pos4 == IF pt_to = KING
                              THEN [pos3 EXCEPT !.king_squares =
                                       [@ EXCEPT ![us] = lsb_unchecked(pieces_cp(pos3, us, KING))]]
                              ELSE pos3
                      pos5 == set_golds_bb(pos4)
                  IN [pos |-> pos5,
                      board_key |-> Kxor(Kxor(key1, get_field(pt_from, from, us)),
                                         get_field(pt_to, to, us)),
                      hand_key |-> hkey1,
                      material |-> mat2,
                      checkers_bb |->
                          IF gives_check_arg
                          THEN attackers_to_except_king(pos5, us, king_square(pos5, them),
                                                        occupied_bb(pos5)) \cap pieces_c(pos5, us)
                          ELSE {},
                      captured_piece |-> captured]
        pos_end == [r.pos EXCEPT !.side_to_move = them, !.game_ply = pos0.game_ply + 1]
        state == [material |-> r.material,
                  plies_from_null |-> fresh.plies_from_null + 1,
                  continuous_checks |->
                      [fresh.continuous_checks EXCEPT ![us] = IF gives_check_arg THEN @ + 2 ELSE 0],
                  board_key |-> r.board_key,
                  hand_key |-> r.hand_key,
                  hand_of_side_to_move |-> hand(pos_end, them),
                  checkers_bb |-> r.checkers_bb,
                  captured_piece |-> r.captured_piece,
                  check_info |-> CheckInfo_new(pos_end)]
    IN [base |-> pos_end, states |-> Append(p.states, state)]

\* mutant of undo_move: the captured piece is put back on the board and stays
\* in the hand of the capturer
undo_move_keeping_captured_piece_in_hand(p, m) ==
    LET pos0 == p.base
        us == side_to_move(pos0)
        them == inverse(us)
        to == Move_to(m)
        pos_moved ==
            IF is_drop(m)
            THEN LET pc_dropped == piece_dropped(m)
                     pt_dropped == PieceType_new(pc_dropped)
                     pos1 == remove_piece(pos0, pc_dropped, to)
                 IN [pos1 EXCEPT !.hands = [@ EXCEPT ![them] = plus_one(@, pt_dropped)]]
            ELSE LET pc_to == piece_on(pos0, to)
                     pc_captured == st(p).captured_piece
                     pos1 == IF pc_captured # EMPTY
                             THEN exchange_pieces(pos0, pc_captured, to)
                             ELSE remove_piece(pos0, pc_to, to)
                     pc_from == IF is_promotion(m) THEN to_demote(pc_to) ELSE pc_to
                     from == Move_from(m)
                     pos2 == put_piece(pos1, pc_from, from)
                 IN IF is_king(pc_to)
                    THEN [pos2 EXCEPT !.king_squares = [@ EXCEPT ![them] = from]]
                    ELSE pos2
        pos_end == [set_golds_bb(pos_moved) EXCEPT !.side_to_move = them,
                                                   !.game_ply = pos0.game_ply - 1]
    IN [base |-> pos_end, states |-> SubSeq(p.states, 1, Len(p.states) - 1)]

undo_move(p, m) ==
    LET pos0 == p.base
        us == side_to_move(pos0)
        them == inverse(us)
        to == Move_to(m)
        pos_moved ==
            IF is_drop(m)
            THEN LET pc_dropped == piece_dropped(m)
                     pt_dropped == PieceType_new(pc_dropped)
                     pos1 == remove_piece(pos0, pc_dropped, to)
                 IN [pos1 EXCEPT !.hands = [@ EXCEPT ![them] = plus_one(@, pt_dropped)]]
            ELSE LET pc_to == piece_on(pos0, to)
                     pc_captured == st(p).captured_piece
                     pt_captured_demoted == to_demote_if_possible(PieceType_new(pc_captured))
                     pos1 == IF pc_captured # EMPTY
                             THEN [exchange_pieces(pos0, pc_captured, to)
                                     EXCEPT !.hands = [@ EXCEPT ![them] = minus_one(@, pt_captured_demoted)]]
                             ELSE remove_piece(pos0, pc_to, to)
                     pc_from == IF is_promotion(m) THEN to_demote(pc_to) ELSE pc_to
                     from == Move_from(m)
                     pos2 == put_piece(pos1, pc_from, from)
                 IN IF is_king(pc_to)
                    THEN [pos2 EXCEPT !.king_squares = [@ EXCEPT ![them] = from]]
                    ELSE pos2
        pos_end == [set_golds_bb(pos_moved) EXCEPT !.side_to_move = them,
                                                   !.game_ply = pos0.game_ply - 1]
    IN [base |-> pos_end, states |-> SubSeq(p.states, 1, Len(p.states) - 1)]

\* mutant of do_null_move: Zobrist::COLOR is not xor-ed into the board key
do_null_move_without_color_key(p) ==
    LET them == inverse(side_to_move(p.base))
        pos_end == [p.base EXCEPT !.side_to_move = them]
        state == [st(p) EXCEPT !.plies_from_null = 0,
                               !.continuous_checks = [c \in Colors |-> 0],
                               !.hand_of_side_to_move = hand(pos_end, them),
                               !.captured_piece = EMPTY,
                               !.check_info = CheckInfo_new(pos_end)]
    IN [base |-> pos_end, states |-> Append(p.states, state)]

\* mutant of do_null_move: the counters of continuous checks are kept
do_null_move_keeping_continuous_checks(p) ==
    LET them == inverse(side_to_move(p.base))
        pos_end == [p.base EXCEPT !.side_to_move = them]
        state == [st(p) EXCEPT !.plies_from_null = 0,
                               !.board_key = Kxor(@, Zobrist_COLOR),
                               !.hand_of_side_to_move = hand(pos_end, them),
                               !.captured_piece = EMPTY,
                               !.check_info = CheckInfo_new(pos_end)]
    IN [base |-> pos_end, states |-> Append(p.states, state)]

do_null_move(p) ==
    LET them == inverse(side_to_move(p.base))
        pos_end == [p.base EXCEPT !.side_to_move = them]
        state == [st(p) EXCEPT !.plies_from_null = 0,
                               !.continuous_checks = [c \in Colors |-> 0],
                               !.board_key = Kxor(@, Zobrist_COLOR),
                               !.hand_of_side_to_move = hand(pos_end, them),
                               !.captured_piece = EMPTY,
                               !.check_info = CheckInfo_new(pos_end)]
    IN [base |-> pos_end, states |-> Append(p.states, state)]

undo_null_move(p) ==
    [base |-> [p.base EXCEPT !.side_to_move = inverse(side_to_move(p.base))],
     states |-> SubSeq(p.states, 1, Len(p.states) - 1)]

MAX_REPETITION_PLY == 16

\* mutant of is_repetition: the counters of continuous checks are compared with <
is_repetition_with_strict_counts(p) ==
    LET end == IF MAX_REPETITION_PLY <= st(p).plies_from_null
               THEN MAX_REPETITION_PLY ELSE st(p).plies_from_null
        us == side_to_move(p.base)
        \* the body of the loop for the state i plies back: states[len - 1 - i]
        at(i) ==
            LET s == p.states[Len(p.states) - i]
            IN IF StateInfo_key(st(p)) = StateInfo_key(s)
               THEN IF i < st(p).continuous_checks[us] THEN "Lose"
                    ELSE IF i < st(p).continuous_checks[inverse(us)] THEN "Win"
                    ELSE "Draw"
               ELSE IF st(p).board_key = s.board_key
               THEN IF is_equal_or_superior(st(p).hand_of_side_to_move, s.hand_of_side_to_move)
                    THEN "Superior"
                    ELSE IF is_equal_or_superior(s.hand_of_side_to_move, st(p).hand_of_side_to_move)
                    THEN "Inferior"
                    ELSE "continue"
               ELSE "continue"
        hits == {i \in 4..end : i % 2 = 0 /\ at(i) # "continue"}
    IN IF end < 4 \/ hits = {} THEN "Not"
       ELSE at(CHOOSE i \in hits : \A j \in hits : i <= j)

\* mutant of is_repetition: the two hand comparisons are exchanged
is_repetition_with_hands_swapped(p) ==
    LET end == IF MAX_REPETITION_PLY <= st(p).plies_from_null
               THEN MAX_REPETITION_PLY ELSE st(p).plies_from_null
        us == side_to_move(p.base)
        \* the body of the loop for the state i plies back: states[len - 1 - i]
        at(i) ==
            LET s == p.states[Len(p.states) - i]
            IN IF StateInfo_key(st(p)) = StateInfo_key(s)
               THEN IF i <= st(p).continuous_checks[us] THEN "Lose"
                    ELSE IF i <= st(p).continuous_checks[inverse(us)] THEN "Win"
                    ELSE "Draw"
               ELSE IF st(p).board_key = s.board_key
               THEN IF is_equal_or_superior(st(p).hand_of_side_to_move, s.hand_of_side_to_move)
                    THEN "Inferior"
                    ELSE IF is_equal_or_superior(s.hand_of_side_to_move, st(p).hand_of_side_to_move)
                    THEN "Superior"
                    ELSE "continue"
               ELSE "continue"
        hits == {i \in 4..end : i % 2 = 0 /\ at(i) # "continue"}
    IN IF end < 4 \/ hits = {} THEN "Not"
       ELSE at(CHOOSE i \in hits : \A j \in hits : i <= j)

\* Position::is_repetition: the value returned at the first distance i = 4, 6, ..
\* of the backward scan that returns, Repetition::Not when the loop runs out
is_repetition(p) ==
    LET end == IF MAX_REPETITION_PLY <= st(p).plies_from_null
               THEN MAX_REPETITION_PLY ELSE st(p).plies_from_null
        us == side_to_move(p.base)
        \* the body of the loop for the state i plies back: states[len - 1 - i]
        at(i) ==
            LET s == p.states[Len(p.states) - i]
            IN IF StateInfo_key(st(p)) = StateInfo_key(s)
               THEN IF i <= st(p).continuous_checks[us] THEN "Lose"
                    ELSE IF i <= st(p).continuous_checks[inverse(us)] THEN "Win"
                    ELSE "Draw"
               ELSE IF st(p).board_key = s.board_key
               THEN IF is_equal_or_superior(st(p).hand_of_side_to_move, s.hand_of_side_to_move)
                    THEN "Superior"
                    ELSE IF is_equal_or_superior(s.hand_of_side_to_move, st(p).hand_of_side_to_move)
                    THEN "Inferior"
                    ELSE "continue"
               ELSE "continue"
        hits == {i \in 4..end : i % 2 = 0 /\ at(i) # "continue"}
    IN IF end < 4 \/ hits = {} THEN "Not"
       ELSE at(CHOOSE i \in hits : \A j \in hits : i <= j)

effect_bb_of_checker_where_king_cannot_escape(pos, checker_sq, checker_pc, occupied) ==
    LET checker_pt == PieceType_new(checker_pc)
        checker_color == Color_new(checker_pc)
    IN CASE checker_pt \in {PAWN, KNIGHT} -> {}
         [] checker_pt = LANCE -> lance_pseudo_attack(checker_color, checker_sq)
         [] checker_pt = SILVER -> silver_attack(checker_color, checker_sq)
         [] checker_pt \in {GOLD, PRO_PAWN, PRO_LANCE, PRO_KNIGHT, PRO_SILVER} ->
              gold_attack(checker_color, checker_sq)
         [] checker_pt = BISHOP -> bishop_pseudo_attack(checker_sq)
         [] checker_pt = HORSE -> bishop_pseudo_attack(checker_sq) \cup king_attack(checker_sq)
         [] checker_pt = ROOK -> rook_pseudo_attack(checker_sq)
         [] checker_pt = DRAGON ->
              IF is_diag(king_square(pos, inverse(checker_color)), checker_sq)
              THEN rook_attack(checker_sq, occupied) \cup king_attack(checker_sq)
              ELSE rook_pseudo_attack(checker_sq) \cup king_attack(checker_sq)

\* mutant of is_entering_king_win: the king is counted among the pieces
is_entering_king_win_counting_the_king(p) ==
    LET pos == p.base
        us == side_to_move(pos)
        own_pieces_count == Cardinality(pieces_c(pos, us) \cap opponent_field_mask(us))
        own_big_pieces_count ==
            Cardinality(((pieces_pp(pos, BISHOP, ROOK) \cup pieces_pp(pos, HORSE, DRAGON))
                         \cap pieces_c(pos, us)) \cap opponent_field_mask(us))
        own_small_pieces_count == own_pieces_count - own_big_pieces_count
        h == hand(pos, us)
        val == own_small_pieces_count + num(h, PAWN) + num(h, LANCE) + num(h, KNIGHT)
               + num(h, SILVER) + num(h, GOLD)
               + (own_big_pieces_count + num(h, BISHOP) + num(h, ROOK)) * 5
        thresh == IF us = BLACK THEN 28 ELSE 27
    IN /\ ~in_check(p)
       /\ is_opponent_field(Rank_new(king_square(pos, us)), us)
       /\ ~(own_pieces_count < 10)
       /\ ~(val < thresh)

\* Position::is_entering_king_win
is_entering_king_win(p) ==
    LET pos == p.base
        us == side_to_move(pos)
        own_pieces_count == Cardinality(pieces_c(pos, us) \cap opponent_field_mask(us)) - 1
        \* pieces_cpppp(us, BISHOP, ROOK, HORSE, DRAGON)
        own_big_pieces_count ==
            Cardinality(((pieces_pp(pos, BISHOP, ROOK) \cup pieces_pp(pos, HORSE, DRAGON))
                         \cap pieces_c(pos, us)) \cap opponent_field_mask(us))
        own_small_pieces_count == own_pieces_count - own_big_pieces_count
        h == hand(pos, us)
        val == own_small_pieces_count + num(h, PAWN) + num(h, LANCE) + num(h, KNIGHT)
               + num(h, SILVER) + num(h, GOLD)
               + (own_big_pieces_count + num(h, BISHOP) + num(h, ROOK)) * 5
        thresh == IF us = BLACK THEN 28 ELSE 27
    IN /\ ~in_check(p)
       /\ is_opponent_field(Rank_new(king_square(pos, us)), us)
       /\ ~(own_pieces_count < 10)
       /\ ~(val < thresh)

\* Bitboard::proximity_check_mask(pc, ksq).is_set(from): the squares from which pc, moving
\* with no piece in its way, reaches a square where it (or its promotion, when
\* the move may promote) attacks ksq from next to it or with a knight jump
proximity_check_mask_is_set(pc, ksq, from) ==
    LET pt == PieceType_new(pc)
        c == Color_new(pc)
        may_promote(to) ==
            is_promotable(pc)
            /\ (is_opponent_field(Rank_new(from), c) \/ is_opponent_field(Rank_new(to), c))
    IN \E to \in attack(pt, c, from, {}) :
          \/ ksq \in attack(pt, c, to, Sq)
          \/ may_promote(to) /\ ksq \in attack(pt + PROMOTION, c, to, Sq)

proximity_check_mask(pc, ksq) == {from \in Sq : proximity_check_mask_is_set(pc, ksq, from)}

\* Option<Move>
None == [some |-> FALSE, m |-> 0]
Some(m) == [some |-> TRUE, m |-> m]

\* mutant of mate_drop_move_in_1ply: the captures of the dropped piece are not looked at
mate_drop_move_in_1ply_without_captures(p, pt, us) ==
    LET pos == p.base
        them == inverse(us)
        ksq == king_square(pos, them)
        to_bb == empty_bb(pos) \cap attack(pt, them, ksq, Sq)
        bb_of_king_cannot_escape(dropped_sq) ==
            CASE pt = LANCE -> lance_pseudo_attack(us, dropped_sq)
              [] pt = KNIGHT -> {}
              [] pt = SILVER -> silver_attack(us, dropped_sq)
              [] pt = GOLD -> gold_attack(us, dropped_sq)
              [] pt = BISHOP -> bishop_pseudo_attack(dropped_sq)
              [] pt = ROOK -> rook_pseudo_attack(dropped_sq)
        mates(to) ==
            /\ pt = KNIGHT \/ attackers_to(pos, us, to, occupied_bb(pos)) # {}
            /\ \A escape_sq \in (king_attack(ksq) \ pieces_c(pos, them))
                                   \ bb_of_king_cannot_escape(to) :
                  attackers_to(pos, us, escape_sq, xor(occupied_bb(pos), to)) # {}
        found == {to \in to_bb : mates(to)}
    IN IF found = {} THEN None ELSE Some(new_drop(Piece_new(us, pt), lsb_unchecked(found)))

\* mate_drop_move_in_1ply::<PTT>(us), pt being PTT::PIECE_TYPE
mate_drop_move_in_1ply(p, pt, us) ==
    LET pos == p.base
        them == inverse(us)
        ksq == king_square(pos, them)
        to_bb == empty_bb(pos) \cap attack(pt, them, ksq, Sq)
        bb_of_king_cannot_escape(dropped_sq) ==
            CASE pt = LANCE -> lance_pseudo_attack(us, dropped_sq)
              [] pt = KNIGHT -> {}
              [] pt = SILVER -> silver_attack(us, dropped_sq)
              [] pt = GOLD -> gold_attack(us, dropped_sq)
              [] pt = BISHOP -> bishop_pseudo_attack(dropped_sq)
              [] pt = ROOK -> rook_pseudo_attack(dropped_sq)
        mates(to) ==
            /\ pt = KNIGHT \/ attackers_to(pos, us, to, occupied_bb(pos)) # {}
            /\ \A escape_sq \in (king_attack(ksq) \ pieces_c(pos, them))
                                   \ bb_of_king_cannot_escape(to) :
                  attackers_to(pos, us, escape_sq, xor(occupied_bb(pos), to)) # {}
            /\ \A capture_candidate_sq \in
                      attackers_to_except_king(pos, them, to, occupied_bb(pos)) :
                  /\ capture_candidate_sq \in blockers_for_king(p, them)
                  /\ ~is_aligned_and_sq2_is_not_between_sq0_and_sq1(capture_candidate_sq, to, ksq)
        found == {to \in to_bb : mates(to)}
    IN IF found = {} THEN None ELSE Some(new_drop(Piece_new(us, pt), lsb_unchecked(found)))

\* the scratch PositionBase of mate_non_drop_move_in_1ply: pc taken from from
\* and put on to (capturing what stands there), golds_bb set again
mate_scratch(pos, pc, from, to) ==
    LET Moved(b) == set_golds_bb(IF piece_on(b, to) = EMPTY THEN put_piece(b, pc, to)
                                 ELSE exchange_pieces(b, pc, to))
    IN Moved(remove_piece(pos, pc, from))

\* mate_non_drop_move_in_1ply::<True>(us): the knight moves
mate_knight_move_in_1ply(p, us) ==
    LET pos == p.base
        them == inverse(us)
        ksq == king_square(pos, them)
        pc == Piece_new(us, KNIGHT)
        from_bb == (pieces_cp(pos, us, KNIGHT) \cap proximity_check_mask(pc, ksq))
                   \ blockers_for_king(p, us)
        \* pos_base is the scratch position, blockers its blockers of the king on ksq
        Mates(from, to, pos_base, blockers) ==
            /\ \A escape_sq \in king_attack(ksq) \ pieces_c(pos_base, them) :
                  attackers_to(pos_base, us, escape_sq, xor(occupied_bb(pos_base), ksq)) # {}
            /\ \/ /\ from \in blockers_for_king(p, them)
                  /\ ~is_aligned_and_sq2_is_not_between_sq0_and_sq1(from, to, ksq)
               \/ \A capture_sq \in
                      attackers_to_except_king(pos_base, them, to, occupied_bb(pos_base)) :
                     /\ capture_sq \in blockers
                     /\ ~is_aligned_and_sq2_is_not_between_sq0_and_sq1(capture_sq, to, ksq)
        Scratch(from, to, pos_base) ==
            Mates(from, to, pos_base,
                  slider_blockers_and_pinners(pos_base, pieces_c(pos_base, us), us, ksq)[1])
        mates(from, to) == Scratch(from, to, mate_scratch(pos, pc, from, to))
        \* the outer loop runs over from, the inner over to
        First(found) ==
            IF found = {} THEN None
            ELSE LET Make(ft) == Some(new_unpromote(ft[1], ft[2], pc))
                 IN Make(CHOOSE ft \in found : \A o \in found :
                            ft[1] < o[1] \/ (ft[1] = o[1] /\ ft[2] <= o[2]))
    IN First({ft \in from_bb \X Sq :
                /\ ft[2] \in knight_attack(us, ft[1]) \ pieces_c(pos, us)
                /\ ksq \in knight_attack(us, ft[2])
                /\ mates(ft[1], ft[2])})

\* mate_non_drop_move_in_1ply::<False>(us): the moves next to the king
mate_neighbor_move_in_1ply(p, us) ==
    LET pos == p.base
        them == inverse(us)
        ksq == king_square(pos, them)
        \* pos_base is the scratch position with pc_to on to, blockers and
        \* tmp_occupied are those of the scratch position before the promotion
        Mates(from, to, promote, pc, pc_to, pos_base, blockers, tmp_occupied, attacked) ==
            /\ proximity_check_mask_is_set(pc, ksq, from)
            /\ attacked
            /\ promote =>
                  /\ is_promotable(pc)
                  /\ is_opponent_field(Rank_new(from), us) \/ is_opponent_field(Rank_new(to), us)
            /\ ksq \in attack(PieceType_new(pc_to), us, to, tmp_occupied)
            \* the king cannot escape
            /\ \A escape_sq \in
                   (king_attack(ksq) \ pieces_c(pos_base, them))
                   \ effect_bb_of_checker_where_king_cannot_escape(pos, to, pc_to, tmp_occupied) :
                  attackers_to(pos_base, us, escape_sq, xor(tmp_occupied, ksq)) # {}
            \* the checker cannot be captured
            /\ \/ /\ from \in blockers_for_king(p, them)
                  /\ ~is_aligned_and_sq2_is_not_between_sq0_and_sq1(from, to, ksq)
               \/ \A capture_sq \in
                      attackers_to_except_king(pos_base, them, to, tmp_occupied) :
                     /\ capture_sq \in blockers
                     /\ ~is_aligned_and_sq2_is_not_between_sq0_and_sq1(capture_sq, to, ksq)
            /\ \/ from \notin blockers_for_king(p, us)
               \/ is_aligned_and_sq2_is_not_between_sq0_and_sq1(from, to, king_square(pos, us))
        Scratch(from, to, promote, pc, pc_to, unpromoted) ==
            Mates(from, to, promote, pc, pc_to,
                  IF promote
                  THEN set_golds_bb(put_piece(remove_piece(unpromoted, pc, to), pc_to, to))
                  ELSE unpromoted,
                  slider_blockers_and_pinners(unpromoted, pieces_c(unpromoted, us), us, ksq)[1],
                  occupied_bb(unpromoted),
                  attackers_to(unpromoted, us, to, occupied_bb(unpromoted)) # {})
        Moved(from, to, promote, pc) ==
            Scratch(from, to, promote, pc, IF promote THEN to_promote(pc) ELSE pc,
                    mate_scratch(pos, pc, from, to))
        \* the promoting (promote = TRUE) or the unpromoted try of from -> to
        mates(from, to, promote) == Moved(from, to, promote, piece_on(pos, from))
        \* the loops run over to, then over from; the promotion is tried first
        before(x, y) ==
            \/ x[1] < y[1]
            \/ x[1] = y[1] /\ x[2] < y[2]
            \/ x[1] = y[1] /\ x[2] = y[2] /\ (x[3] \/ ~y[3])
        Make(first, pc) ==
            IF first[3] THEN Some(new_promote(first[2], first[1], pc))
            ELSE Some(new_unpromote(first[2], first[1], pc))
        Pick(first) == Make(first, piece_on(pos, first[2]))
        First(found) ==
            IF found = {} THEN None
            ELSE Pick(CHOOSE x \in found : \A y \in found : before(x, y))
    IN First({x \in UNION {{to} \X attackers_to_except_king(pos, us, to, occupied_bb(pos))
                                 \X BOOLEAN : to \in king_attack(ksq) \ pieces_c(pos, us)} :
                mates(x[2], x[1], x[3])})

\* Position::mate_move_in_1ply
mate_move_in_1ply(p) ==
    LET us == side_to_move(p.base)
        h == hand(p.base, us)
        drop(pt) == IF exist(h, pt) THEN mate_drop_move_in_1ply(p, pt, us) ELSE None
        rook_or_lance == IF exist(h, ROOK) THEN mate_drop_move_in_1ply(p, ROOK, us)
                         ELSE drop(LANCE)
        tries == <<drop(GOLD), rook_or_lance, drop(BISHOP), drop(SILVER), drop(KNIGHT),
                   mate_neighbor_move_in_1ply(p, us), mate_knight_move_in_1ply(p, us)>>
        hits == {k \in DOMAIN tries : tries[k].some}
    IN IF hits = {} THEN None ELSE tries[CHOOSE k \in hits : \A j \in hits : k <= j]

----------------------------------------------------------------------------
(* movegen.rs: move generation.  A MoveList is modelled as the set of its moves;
   an AllowMovesTrait type is a record of its associated constants. *)

CaptureOrPawnPromotionsType ==
    [ALLOW_CAPTURES |-> TRUE, ALLOW_QUIETS |-> FALSE, EVASIONS |-> FALSE, LEGALS |-> FALSE]
QuietsWithoutPawnPromotionsType ==
    [ALLOW_CAPTURES |-> FALSE, ALLOW_QUIETS |-> TRUE, EVASIONS |-> FALSE, LEGALS |-> FALSE]
EvasionsType ==
    [ALLOW_CAPTURES |-> TRUE, ALLOW_QUIETS |-> TRUE, EVASIONS |-> TRUE, LEGALS |-> FALSE]
NonEvasionsType ==
    [ALLOW_CAPTURES |-> TRUE, ALLOW_QUIETS |-> TRUE, EVASIONS |-> FALSE, LEGALS |-> FALSE]
LegalType ==
    [ALLOW_CAPTURES |-> TRUE, ALLOW_QUIETS |-> TRUE, EVASIONS |-> FALSE, LEGALS |-> TRUE]

generate_for_pawn(p, AMT, target) ==
    LET pos == p.base
        us == side_to_move(pos)
        from_bb == pieces_cp(pos, us, PAWN)
        \* from_bb >> 1 for Black, from_bb << 1 for White
        to_bb == ({s + (IF us = BLACK THEN DELTA_N ELSE DELTA_S) : s \in from_bb} \cap Sq) \cap target
        delta == IF us = BLACK THEN DELTA_S ELSE DELTA_N
        pc == Piece_new(us, PAWN)
    IN {IF is_opponent_field(Rank_new(to), us)
        THEN new_promote(add_unchecked(to, delta), to, pc)
        ELSE new_unpromote(add_unchecked(to, delta), to, pc) : to \in to_bb}

\* generate_for_lance with the unpromoted capture emitted on rank 2 instead of rank 3
generate_for_lance_unpromoted_on_rank2(p, AMT, target) ==
    LET pos == p.base
        us == side_to_move(pos)
        to_bb(from) == lance_attack(us, from, occupied_bb(pos)) \cap target
        for_to(from, to) ==
            LET pc == piece_on(pos, from)
                rank_to == Rank_new(to)
            IN IF is_opponent_field(rank_to, us)
               THEN {new_promote(from, to, pc)}
                    \cup (IF /\ AMT.ALLOW_CAPTURES
                             /\ rank_to = rank_as_black(us, 2)
                             /\ piece_on(pos, to) # EMPTY
                          THEN {new_unpromote(from, to, pc)} ELSE {})
               ELSE {new_unpromote(from, to, pc)}
    IN UNION {for_to(x[1], x[2]) :
                x \in {y \in pieces_cp(pos, us, LANCE) \X Sq : y[2] \in to_bb(y[1])}}

generate_for_lance(p, AMT, target) ==
    LET pos == p.base
        us == side_to_move(pos)
        to_bb(from) == lance_attack(us, from, occupied_bb(pos)) \cap target
        for_to(from, to) ==
            LET pc == piece_on(pos, from)
                rank_to == Rank_new(to)
            IN IF is_opponent_field(rank_to, us)
               THEN {new_promote(from, to, pc)}
                    \cup (IF /\ AMT.ALLOW_CAPTURES
                             /\ rank_to = rank_as_black(us, 3)
                             /\ piece_on(pos, to) # EMPTY
                          THEN {new_unpromote(from, to, pc)} ELSE {})
               ELSE {new_unpromote(from, to, pc)}
    IN UNION {for_to(x[1], x[2]) :
                x \in {y \in pieces_cp(pos, us, LANCE) \X Sq : y[2] \in to_bb(y[1])}}

\* mutant of generate_for_knight: the unpromoted move is emitted on every rank
generate_for_knight_without_rank_test(p, AMT, target) ==
    LET pos == p.base
        us == side_to_move(pos)
        to_bb(from) == knight_attack(us, from) \cap target
        for_to(from, to) ==
            LET pc == piece_on(pos, from)
            IN (IF is_opponent_field(Rank_new(to), us) THEN {new_promote(from, to, pc)} ELSE {})
               \cup {new_unpromote(from, to, pc)}
    IN UNION {for_to(x[1], x[2]) :
                x \in {y \in pieces_cp(pos, us, KNIGHT) \X Sq : y[2] \in to_bb(y[1])}}

generate_for_knight(p, AMT, target) ==
    LET pos == p.base
        us == side_to_move(pos)
        to_bb(from) == knight_attack(us, from) \cap target
        for_to(from, to) ==
            LET pc == piece_on(pos, from)
                rank_to == Rank_new(to)
            IN (IF is_opponent_field(rank_to, us) THEN {new_promote(from, to, pc)} ELSE {})
               \cup (IF ~is_in_front_of(rank_to, us, 3) THEN {new_unpromote(from, to, pc)} ELSE {})
    IN UNION {for_to(x[1], x[2]) :
                x \in {y \in pieces_cp(pos, us, KNIGHT) \X Sq : y[2] \in to_bb(y[1])}}

generate_for_silver(p, AMT, target) ==
    LET pos == p.base
        us == side_to_move(pos)
        to_bb(from) == silver_attack(us, from) \cap target
        for_to(from, to) ==
            LET pc == piece_on(pos, from)
            IN (IF is_opponent_field(Rank_new(from), us) \/ is_opponent_field(Rank_new(to), us)
                THEN {new_promote(from, to, pc)} ELSE {})
               \cup {new_unpromote(from, to, pc)}
    IN UNION {for_to(x[1], x[2]) :
                x \in {y \in pieces_cp(pos, us, SILVER) \X Sq : y[2] \in to_bb(y[1])}}

generate_for_gold(p, AMT, target) ==
    LET pos == p.base
        us == side_to_move(pos)
        from_bb == pieces_golds(pos) \cap pieces_c(pos, us)
    IN {new_unpromote(x[1], x[2], piece_on(pos, x[1])) :
          x \in {y \in from_bb \X Sq : y[2] \in gold_attack(us, y[1]) \cap target}}

generate_for_king(p, AMT, target) ==
    LET pos == p.base
        us == side_to_move(pos)
        from == king_square(pos, us)
    IN {new_unpromote(from, to, piece_on(pos, from)) : to \in king_attack(from) \cap target}

generate_for_bishop_or_rook(pt, p, AMT, target) ==
    LET pos == p.base
        us == side_to_move(pos)
        to_bb(from) == attack(pt, us, from, occupied_bb(pos)) \cap target
        for_to(from, to) ==
            LET pc == piece_on(pos, from)
            IN IF is_opponent_field(Rank_new(from), us) \/ is_opponent_field(Rank_new(to), us)
               THEN new_promote(from, to, pc)
               ELSE new_unpromote(from, to, pc)
    IN {for_to(x[1], x[2]) :
          x \in {y \in pieces_cp(pos, us, pt) \X Sq : y[2] \in to_bb(y[1])}}

generate_for_horse_or_dragon(pt, p, AMT, target) ==
    LET pos == p.base
        us == side_to_move(pos)
    IN {new_unpromote(x[1], x[2], piece_on(pos, x[1])) :
          x \in {y \in pieces_cp(pos, us, pt) \X Sq :
                    y[2] \in attack(pt, us, y[1], occupied_bb(pos)) \cap target}}

generate_drop_for_possessions(possessions, to_bb) ==
    {new_drop(x[1], x[2]) : x \in possessions \X to_bb}

\* mutant of generate_drop: the files of the own pawns are not masked out
generate_drop_without_file_mask(p, AMT, target) ==
    LET pos == p.base
        us == side_to_move(pos)
        h == hand(pos, us)
        pawn_drops ==
            IF exist(h, PAWN)
            THEN LET to_bb0 == target \ rank_mask(rank_as_black(us, 1))
                     drop_pawn_check_bb == pawn_attack(inverse(us), king_square(pos, inverse(us)))
                     to_bb == IF /\ drop_pawn_check_bb \cap to_bb0 # {}
                                 /\ is_drop_pawn_mate(p, us, lsb_unchecked(drop_pawn_check_bb))
                              THEN xor(to_bb0, lsb_unchecked(drop_pawn_check_bb))
                              ELSE to_bb0
                 IN {new_drop(Piece_new(us, PAWN), to) : to \in to_bb}
            ELSE {}
        func(pts) == {Piece_new(us, pt) : pt \in {q \in pts : exist(h, q)}}
        sgbr == func({ROOK, BISHOP, GOLD, SILVER})
        sgbrl == sgbr \cup func({LANCE})
        possessions == sgbrl \cup func({KNIGHT})
        mask1 == rank_mask(rank_as_black(us, 1))
        mask2 == rank_mask(rank_as_black(us, 2))
    IN pawn_drops
       \cup (IF except_pawn_exist(h)
             THEN generate_drop_for_possessions(sgbr, target \cap mask1)
                  \cup generate_drop_for_possessions(sgbrl, target \cap mask2)
                  \cup generate_drop_for_possessions(possessions, target \ (mask1 \cup mask2))
             ELSE {})

generate_drop(p, AMT, target) ==
    LET pos == p.base
        us == side_to_move(pos)
        h == hand(pos, us)
        pawn_drops ==
            IF exist(h, PAWN)
            THEN LET rank == rank_as_black(us, 1)
                     pawns_bb == pieces_cp(pos, us, PAWN)
                     to_bb0 == (target \ rank_mask(rank))
                               \ UNION {file_mask(File_new(pawn_sq)) : pawn_sq \in pawns_bb}
                     them == inverse(us)
                     ksq == king_square(pos, them)
                     drop_pawn_check_bb == pawn_attack(them, ksq)
                     to_bb == IF /\ drop_pawn_check_bb \cap to_bb0 # {}
                                 /\ is_drop_pawn_mate(p, us, lsb_unchecked(drop_pawn_check_bb))
                              THEN xor(to_bb0, lsb_unchecked(drop_pawn_check_bb))
                              ELSE to_bb0
                 IN {new_drop(Piece_new(us, PAWN), to) : to \in to_bb}
            ELSE {}
        func(pts) == {Piece_new(us, pt) : pt \in {q \in pts : exist(h, q)}}
        sgbr == func({ROOK, BISHOP, GOLD, SILVER})
        sgbrl == sgbr \cup func({LANCE})
        possessions == sgbrl \cup func({KNIGHT})
        mask1 == rank_mask(rank_as_black(us, 1))
        mask2 == rank_mask(rank_as_black(us, 2))
        other_drops ==
            IF except_pawn_exist(h)
            THEN generate_drop_for_possessions(sgbr, target \cap mask1)
                 \cup generate_drop_for_possessions(sgbrl, target \cap mask2)
                 \cup generate_drop_for_possessions(possessions, target \ (mask1 \cup mask2))
            ELSE {}
    IN pawn_drops \cup other_drops

\* generate_all whose quiet pawn target keeps the squares of the opponent's field
generate_all_with_quiet_pawn_promotions(p, AMT) ==
    LET pos == p.base
        us == side_to_move(pos)
        target == IF AMT.ALLOW_CAPTURES /\ AMT.ALLOW_QUIETS THEN Sq \ pieces_c(pos, us)
                  ELSE IF AMT.ALLOW_CAPTURES THEN pieces_c(pos, inverse(us))
                  ELSE empty_bb(pos)
        target_pawn ==
            IF AMT.ALLOW_CAPTURES /\ AMT.ALLOW_QUIETS THEN Sq \ pieces_c(pos, us)
            ELSE IF AMT.ALLOW_CAPTURES
            THEN pieces_c(pos, inverse(us)) \cup (empty_bb(pos) \cap opponent_field_mask(us))
            ELSE empty_bb(pos)
    IN generate_for_pawn(p, AMT, target_pawn)
       \cup generate_for_lance(p, AMT, target)
       \cup generate_for_knight(p, AMT, target)
       \cup generate_for_silver(p, AMT, target)
       \cup generate_for_bishop_or_rook(BISHOP, p, AMT, target)
       \cup generate_for_bishop_or_rook(ROOK, p, AMT, target)
       \cup generate_for_gold(p, AMT, target)
       \cup generate_for_king(p, AMT, target)
       \cup generate_for_horse_or_dragon(HORSE, p, AMT, target)
       \cup generate_for_horse_or_dragon(DRAGON, p, AMT, target)
       \cup (IF AMT.ALLOW_QUIETS THEN generate_drop(p, AMT, empty_bb(pos)) ELSE {})

generate_all(p, AMT) ==
    LET pos == p.base
        us == side_to_move(pos)
        target == IF AMT.ALLOW_CAPTURES /\ AMT.ALLOW_QUIETS THEN Sq \ pieces_c(pos, us)
                  ELSE IF AMT.ALLOW_CAPTURES THEN pieces_c(pos, inverse(us))
                  ELSE empty_bb(pos)
        target_pawn ==
            IF AMT.ALLOW_CAPTURES /\ AMT.ALLOW_QUIETS THEN Sq \ pieces_c(pos, us)
            ELSE IF AMT.ALLOW_CAPTURES
            THEN pieces_c(pos, inverse(us)) \cup (empty_bb(pos) \cap opponent_field_mask(us))
            ELSE empty_bb(pos) \ opponent_field_mask(us)
    IN generate_for_pawn(p, AMT, target_pawn)
       \cup generate_for_lance(p, AMT, target)
       \cup generate_for_knight(p, AMT, target)
       \cup generate_for_silver(p, AMT, target)
       \cup generate_for_bishop_or_rook(BISHOP, p, AMT, target)
       \cup generate_for_bishop_or_rook(ROOK, p, AMT, target)
       \cup generate_for_gold(p, AMT, target)
       \cup generate_for_king(p, AMT, target)
       \cup generate_for_horse_or_dragon(HORSE, p, AMT, target)
       \cup generate_for_horse_or_dragon(DRAGON, p, AMT, target)
       \cup (IF AMT.ALLOW_QUIETS THEN generate_drop(p, AMT, empty_bb(pos)) ELSE {})

\* mutant of generate_evasions: no early return in double check
generate_evasions_without_double_check_return(p) ==
    LET pos == p.base
        us == side_to_move(pos)
        ksq_of_evasion == king_square(pos, us)
        chk == checkers(p)
        not_target ==
            UNION {effect_bb_of_checker_where_king_cannot_escape(
                       pos, s, piece_on(pos, s), occupied_bb(pos)) : s \in chk}
        checker_sq == CHOOSE s \in chk : \A t \in chk : t <= s
        to_bb == (king_attack(ksq_of_evasion) \ pieces_c(pos, us)) \ not_target
        target_drop == between_mask(checker_sq, ksq_of_evasion)
        target_move == target_drop \cup {checker_sq}
    IN {new_unpromote(ksq_of_evasion, to, piece_on(pos, ksq_of_evasion)) : to \in to_bb}
       \cup generate_for_pawn(p, EvasionsType, target_move)
       \cup generate_for_lance(p, EvasionsType, target_move)
       \cup generate_for_knight(p, EvasionsType, target_move)
       \cup generate_for_silver(p, EvasionsType, target_move)
       \cup generate_for_bishop_or_rook(BISHOP, p, EvasionsType, target_move)
       \cup generate_for_bishop_or_rook(ROOK, p, EvasionsType, target_move)
       \cup generate_for_gold(p, EvasionsType, target_move)
       \cup generate_for_horse_or_dragon(HORSE, p, EvasionsType, target_move)
       \cup generate_for_horse_or_dragon(DRAGON, p, EvasionsType, target_move)
       \cup generate_drop(p, EvasionsType, target_drop)

\* precondition: checkers(p) is not empty
generate_evasions(p) ==
    LET pos == p.base
        us == side_to_move(pos)
        ksq_of_evasion == king_square(pos, us)
        chk == checkers(p)
        not_target ==
            UNION {effect_bb_of_checker_where_king_cannot_escape(
                       pos, checker_sq, piece_on(pos, checker_sq), occupied_bb(pos)) :
                   checker_sq \in chk}
        checkers_num == Cardinality(chk)
        \* the last square popped by the do-while loop
        checker_sq == CHOOSE s \in chk : \A t \in chk : t <= s
        to_bb == (king_attack(ksq_of_evasion) \ pieces_c(pos, us)) \ not_target
        king_moves == {new_unpromote(ksq_of_evasion, to, piece_on(pos, ksq_of_evasion)) : to \in to_bb}
        target_drop == between_mask(checker_sq, ksq_of_evasion)
        target_move == target_drop \cup {checker_sq}
    IN IF 1 < checkers_num THEN king_moves
       ELSE king_moves
            \cup generate_for_pawn(p, EvasionsType, target_move)
            \cup generate_for_lance(p, EvasionsType, target_move)
            \cup generate_for_knight(p, EvasionsType, target_move)
            \cup generate_for_silver(p, EvasionsType, target_move)
            \cup generate_for_bishop_or_rook(BISHOP, p, EvasionsType, target_move)
            \cup generate_for_bishop_or_rook(ROOK, p, EvasionsType, target_move)
            \cup generate_for_gold(p, EvasionsType, target_move)
            \cup generate_for_horse_or_dragon(HORSE, p, EvasionsType, target_move)
            \cup generate_for_horse_or_dragon(DRAGON, p, EvasionsType, target_move)
            \cup generate_drop(p, EvasionsType, target_drop)

\* mutant of generate_legals: the list is not filtered by legal()
generate_legals_unfiltered(p) ==
    IF in_check(p) THEN generate_evasions(p) ELSE generate_all(p, NonEvasionsType)

generate_legals(p) ==
    LET all == IF in_check(p) THEN generate_evasions(p) ELSE generate_all(p, NonEvasionsType)
    IN {m \in all : legal(p, m)}

generate(p, AMT) ==
    IF AMT.LEGALS THEN generate_legals(p)
    ELSE IF AMT.EVASIONS THEN generate_evasions(p)
    ELSE generate_all(p, AMT)

\* MoveList::generate_recaptures(pos, to)
generate_recaptures(p, to) ==
    LET pos == p.base
        us == side_to_move(pos)
        from_bb == attackers_to(pos, us, to, occupied_bb(pos))
        to_is_opponent_field == is_opponent_field(Rank_new(to), us)
        for_from(from) ==
            LET pc == piece_on(pos, from)
                pt == PieceType_new(pc)
            IN IF pt \in {PAWN, LANCE, KNIGHT, SILVER, BISHOP, ROOK}
               THEN IF to_is_opponent_field \/ is_opponent_field(Rank_new(from), us)
                    THEN new_promote(from, to, pc)
                    ELSE new_unpromote(from, to, pc)
               ELSE new_unpromote(from, to, pc)
    IN {for_from(from) : from \in from_bb}

----------------------------------------------------------------------------
(* PositionBase::new_from_sfen_args.  The input is the slice of sections; the
   board section is given as its '/'-separated rank strings and every rank
   string and the hands string as the sequence of tokens that the regular
   expressions of the parser capture ("-" is the one-token hands string). *)

\* str::parse::<i64> on the digit tokens that occur in the inputs
ParseIntTbl ==
    ("0" :> 0) @@ ("1" :> 1) @@ ("2" :> 2) @@ ("3" :> 3) @@ ("4" :> 4) @@ ("5" :> 5)
    @@ ("6" :> 6) @@ ("7" :> 7) @@ ("8" :> 8) @@ ("9" :> 9) @@ ("10" :> 10) @@ ("11" :> 11)
    @@ ("12" :> 12) @@ ("13" :> 13) @@ ("14" :> 14) @@ ("15" :> 15) @@ ("16" :> 16)
    @@ ("17" :> 17) @@ ("18" :> 18) @@ ("19" :> 19)
\* Piece::new_from_str
PieceFromStrTbl ==
    ("P" :> 1) @@ ("L" :> 2) @@ ("N" :> 3) @@ ("S" :> 4) @@ ("B" :> 5) @@ ("R" :> 6)
    @@ ("G" :> 7) @@ ("K" :> 8) @@ ("+P" :> 9) @@ ("+L" :> 10) @@ ("+N" :> 11)
    @@ ("+S" :> 12) @@ ("+B" :> 13) @@ ("+R" :> 14) @@ ("p" :> 17) @@ ("l" :> 18)
    @@ ("n" :> 19) @@ ("s" :> 20) @@ ("b" :> 21) @@ ("r" :> 22) @@ ("g" :> 23)
    @@ ("k" :> 24) @@ ("+p" :> 25) @@ ("+l" :> 26) @@ ("+n" :> 27) @@ ("+s" :> 28)
    @@ ("+b" :> 29) @@ ("+r" :> 30)
\* Piece::new_hand_piece_from_str
HandPieceFromStrTbl ==
    ("P" :> 1) @@ ("L" :> 2) @@ ("N" :> 3) @@ ("S" :> 4) @@ ("B" :> 5) @@ ("R" :> 6)
    @@ ("G" :> 7) @@ ("p" :> 17) @@ ("l" :> 18) @@ ("n" :> 19) @@ ("s" :> 20)
    @@ ("b" :> 21) @@ ("r" :> 22) @@ ("g" :> 23)

PositionBase_zero ==
    [board |-> [sq \in Sq |-> EMPTY],
     by_type_bb |-> [pt \in 0..14 |-> {}],
     by_color_bb |-> [c \in Colors |-> {}],
     golds_bb |-> {},
     hands |-> [c \in Colors |-> Hand0],
     game_ply |-> 0,
     king_squares |-> [c \in Colors |-> 0],
     side_to_move |-> BLACK]

Ok(pos) == [err |-> "none", pos |-> pos]
Err(kind) == [err |-> kind, pos |-> PositionBase_zero]

RECURSIVE parse_rank(_, _, _, _, _)
\* the loop over the tokens of one rank string, from token i with file_idx files consumed
parse_rank(toks, i, file_idx, rank, pos) ==
    IF i > Len(toks) THEN Ok(pos)
    ELSE IF file_idx >= FileNum THEN Err("InvalidNumberOfFiles")
    ELSE LET token == toks[i]
         IN IF token \in DOMAIN ParseIntTbl
            THEN LET digit == ParseIntTbl[token]
                 IN IF digit <= 0 \/ RankNum < digit \/ RankNum < file_idx + digit
                    THEN Err("InvalidNumberOfEmptySquares")
                    ELSE parse_rank(toks, i + 1, file_idx + digit, rank, pos)
            ELSE IF token \in DOMAIN PieceFromStrTbl
            THEN LET pc == PieceFromStrTbl[token]
                     pt == PieceType_new(pc)
                     \* File::ALL_FROM_LEFT[file_idx]
                     sq == Square_new(FileNum - 1 - file_idx, rank)
                     c == Color_new(pc)
                     pos1 == [pos EXCEPT !.board = [@ EXCEPT ![sq] = pc],
                                         !.by_type_bb = [@ EXCEPT ![OCCUPIED] = @ \cup {sq},
                                                                  ![pt] = @ \cup {sq}],
                                         !.by_color_bb = [@ EXCEPT ![c] = @ \cup {sq}]]
                 IN parse_rank(toks, i + 1, file_idx + 1, rank, pos1)
            ELSE Err("InvalidPieceCharactors")

RECURSIVE parse_board(_, _, _)
\* the loop over Rank::ALL_FROM_UPPER
parse_board(rank_str_vec, rank_idx, pos) ==
    IF rank_idx >= RankNum THEN Ok(pos)
    ELSE LET r == parse_rank(rank_str_vec[rank_idx + 1], 1, 0, rank_idx, pos)
         IN IF r.err # "none" THEN r ELSE parse_board(rank_str_vec, rank_idx + 1, r.pos)

HandMax(pt) == CASE pt = PAWN -> 18
                 [] pt \in {LANCE, KNIGHT, SILVER, GOLD} -> 4
                 [] pt \in {BISHOP, ROOK} -> 2

HandErr(pt) == CASE pt = PAWN -> "InvalidNumberOfPawns"
                 [] pt = LANCE -> "InvalidNumberOfLances"
                 [] pt = KNIGHT -> "InvalidNumberOfKnights"
                 [] pt = SILVER -> "InvalidNumberOfSilvers"
                 [] pt = GOLD -> "InvalidNumberOfGolds"
                 [] pt = BISHOP -> "InvalidNumberOfBishops"
                 [] pt = ROOK -> "InvalidNumberOfRooks"

RECURSIVE parse_hands(_, _, _, _)
\* the loop over the tokens of the hands string
parse_hands(toks, i, hand_num, pos) ==
    IF i > Len(toks)
    THEN IF hand_num # 1 THEN Err("InvalidHandPieceCharactors") ELSE Ok(pos)
    ELSE LET token == toks[i]
         IN IF token \in DOMAIN ParseIntTbl
            THEN IF ParseIntTbl[token] <= 0 THEN Err("InvalidNumberOfHandPieces")
                 ELSE parse_hands(toks, i + 1, ParseIntTbl[token], pos)
            ELSE IF token \in DOMAIN HandPieceFromStrTbl
            THEN LET pc == HandPieceFromStrTbl[token]
                     pt == PieceType_new(pc)
                     c == Color_new(pc)
                 IN IF HandMax(pt) < hand_num THEN Err(HandErr(pt))
                    ELSE IF exist(hand(pos, c), pt) THEN Err("SameHandPieceTwice")
                    ELSE parse_hands(toks, i + 1, 1,
                             [pos EXCEPT !.hands = [@ EXCEPT ![c] = hand_set(@, pt, hand_num)]])
            ELSE Err("InvalidHandPieceCharactors")

\* mutant of check_pieces: every number of pieces is accepted
check_pieces_unchecked(pos, pts, max) == TRUE

\* check_pieces(pos, pts, max): pts[1] is the unpromoted type of the family
check_pieces(pos, pts, max) ==
    LET on_board == IF Len(pts) = 1 THEN Cardinality(pieces_p(pos, pts[1]))
                    ELSE Cardinality(pieces_p(pos, pts[1])) + Cardinality(pieces_p(pos, pts[2]))
        number == on_board + num(hand(pos, BLACK), pts[1]) + num(hand(pos, WHITE), pts[1])
    IN number <= max

PositionBase_new_from_sfen_args(sfen_slice) ==
    IF Len(sfen_slice) < 4 THEN Err("InvalidNumberOfSections")
    ELSE
    LET rank_str_vec == sfen_slice[1]
        side_to_move_str == sfen_slice[2]
        hands_str == sfen_slice[3]
        game_ply_str == sfen_slice[4]
        \* the seven calls of check_pieces
        Checked(pos) ==
            IF ~check_pieces(pos, <<PAWN, PRO_PAWN>>, 18) THEN Err("InvalidNumberOfPawns")
            ELSE IF ~check_pieces(pos, <<LANCE, PRO_LANCE>>, 4) THEN Err("InvalidNumberOfLances")
            ELSE IF ~check_pieces(pos, <<KNIGHT, PRO_KNIGHT>>, 4) THEN Err("InvalidNumberOfKnights")
            ELSE IF ~check_pieces(pos, <<SILVER, PRO_SILVER>>, 4) THEN Err("InvalidNumberOfSilvers")
            ELSE IF ~check_pieces(pos, <<GOLD>>, 4) THEN Err("InvalidNumberOfGolds")
            ELSE IF ~check_pieces(pos, <<BISHOP, HORSE>>, 2) THEN Err("InvalidNumberOfBishops")
            ELSE IF ~check_pieces(pos, <<ROOK, DRAGON>>, 2) THEN Err("InvalidNumberOfRooks")
            ELSE Ok(pos)
        \* game_ply_str.parse::<i32>(), after the hands section h
        WithPly(h) ==
            IF h.err # "none" THEN h
            ELSE IF ~(game_ply_str \in DOMAIN ParseIntTbl /\ 1 <= ParseIntTbl[game_ply_str])
            THEN Err("InvalidGamePly")
            ELSE Checked([h.pos EXCEPT !.game_ply = ParseIntTbl[game_ply_str]])
        WithHands(pos) ==
            WithPly(IF hands_str # <<"-">> THEN parse_hands(hands_str, 1, 1, pos) ELSE Ok(pos))
        WithSide(pos) ==
            IF side_to_move_str \notin {"b", "w"} THEN Err("InvalidSideToMoveCharactors")
            ELSE WithHands([pos EXCEPT !.side_to_move =
                                IF side_to_move_str = "b" THEN BLACK ELSE WHITE])
        \* bb.pop_lsb(): the first king square found for each colour
        WithKings(pos) ==
            IF {c \in Colors : pieces_cp(pos, c, KING) = {}} # {} THEN Err("KingIsNothing")
            ELSE WithSide([pos EXCEPT !.king_squares =
                              [c \in Colors |-> lsb_unchecked(pieces_cp(pos, c, KING))]])
        WithBoard(b) == IF b.err # "none" THEN b ELSE WithKings(set_golds_bb(b.pos))
    IN WithBoard(IF Len(rank_str_vec) # RankNum THEN Err("InvalidNumberOfRanks")
                 ELSE parse_board(rank_str_vec, 0, PositionBase_zero))

\* Position::new_from_sfen_args: the base and the first StateInfo, or the error
Position_new_from_sfen_args(sfen_slice) ==
    LET Wrap(r) ==
            IF r.err = "none"
            THEN [err |-> "none", base |-> r.pos,
                  states |-> <<StateInfo_new_from_position(r.pos)>>]
            ELSE [err |-> r.err, base |-> PositionBase_zero, states |-> <<>>]
    IN Wrap(PositionBase_new_from_sfen_args(sfen_slice))

\* PieceType::ALL_HAND_FOR_SFEN
ALL_HAND_FOR_SFEN == <<ROOK, BISHOP, GOLD, SILVER, KNIGHT, LANCE, PAWN>>

\* Piece::to_usi_str
to_usi_str(pc) == CHOOSE t \in DOMAIN PieceFromStrTbl : PieceFromStrTbl[t] = pc

\* i32::to_string, for the numbers parse::<i32> is tabled for
to_string(n) == CHOOSE t \in DOMAIN ParseIntTbl \ {"0"} : ParseIntTbl[t] = n

\* Position::to_sfen, as the sections and tokens of the string it builds
to_sfen(p) ==
    LET pos == p.base
        count(n) == IF n # 0 THEN <<to_string(n)>> ELSE <<>>
        \* the loop over File::ALL_FROM_LEFT with empty_squares empty squares pending
        RECURSIVE files(_, _, _)
        files(file_idx, rank, empty_squares) ==
            IF file_idx >= FileNum THEN count(empty_squares)
            ELSE IF piece_on(pos, Square_new(FileNum - 1 - file_idx, rank)) = EMPTY
            THEN files(file_idx + 1, rank, empty_squares + 1)
            ELSE count(empty_squares)
                 \o <<to_usi_str(piece_on(pos, Square_new(FileNum - 1 - file_idx, rank)))>>
                 \o files(file_idx + 1, rank, 0)
        hand_str(c, k) ==
            (IF 2 <= num(hand(pos, c), ALL_HAND_FOR_SFEN[k])
             THEN <<to_string(num(hand(pos, c), ALL_HAND_FOR_SFEN[k]))>> ELSE <<>>)
            \o (IF num(hand(pos, c), ALL_HAND_FOR_SFEN[k]) # 0
                THEN <<to_usi_str(Piece_new(c, ALL_HAND_FOR_SFEN[k]))>> ELSE <<>>)
        RECURSIVE hands_str(_, _)
        hands_str(c, k) ==
            IF k > Len(ALL_HAND_FOR_SFEN) THEN <<>> ELSE hand_str(c, k) \o hands_str(c, k + 1)
    IN <<[rank_idx \in 1..RankNum |-> files(0, rank_idx - 1, 0)],
         IF side_to_move(pos) = BLACK THEN "b" ELSE "w",
         IF hand(pos, BLACK) = Hand0 /\ hand(pos, WHITE) = Hand0 THEN <<"-">>
         ELSE hands_str(BLACK, 1) \o hands_str(WHITE, 1),
         to_string(pos.game_ply)>>

\* PieceType::to_csa_str and PieceType::new_from_csa_str
PieceTypeCsaTbl ==
    ("FU" :> PAWN) @@ ("KY" :> LANCE) @@ ("KE" :> KNIGHT) @@ ("GI" :> SILVER)
    @@ ("KA" :> BISHOP) @@ ("HI" :> ROOK) @@ ("KI" :> GOLD) @@ ("OU" :> KING)
    @@ ("TO" :> PRO_PAWN) @@ ("NY" :> PRO_LANCE) @@ ("NK" :> PRO_KNIGHT)
    @@ ("NG" :> PRO_SILVER) @@ ("UM" :> HORSE) @@ ("RY" :> DRAGON)
to_csa_str(pt) == CHOOSE t \in DOMAIN PieceTypeCsaTbl : PieceTypeCsaTbl[t] = pt

\* File::new_from_csa_char and Rank::new_from_csa_char: '1'..'9'
CsaDigits == {"1", "2", "3", "4", "5", "6", "7", "8", "9"}

\* Square::to_csa_string: the file and the rank as digits
Square_to_csa_string(sq) == <<to_string(File_new(sq) + 1), to_string(Rank_new(sq) + 1)>>

\* Move::to_csa_string(pos): the four digits and the piece type after the move
to_csa_string(m, p) ==
    (IF is_drop(m) THEN <<"0", "0">> ELSE Square_to_csa_string(Move_from(m)))
    \o Square_to_csa_string(Move_to(m))
    \o <<to_csa_str(IF is_drop(m) THEN piece_type_dropped(m)
                    ELSE IF is_promotion(m)
                    THEN PieceType_new(piece_on(p.base, Move_from(m))) + PROMOTION
                    ELSE PieceType_new(piece_on(p.base, Move_from(m))))>>

\* Move::new_from_csa_str(s, pos), s being <<v[0], v[1], v[2], v[3], v[4..6]>>
new_from_csa_str(s, p) ==
    LET pos == p.base
        pc == Piece_new(side_to_move(pos), PieceTypeCsaTbl[s[5]])
        to == Square_new(ParseIntTbl[s[3]] - 1, ParseIntTbl[s[4]] - 1)
        from == Square_new(ParseIntTbl[s[1]] - 1, ParseIntTbl[s[2]] - 1)
        pc_from == piece_on(pos, from)
        Checked(m) == IF ~pseudo_legal(p, m, FALSE) \/ ~legal(p, m) THEN None ELSE Some(m)
    IN IF s[5] \notin DOMAIN PieceTypeCsaTbl THEN None
       ELSE IF s[3] \notin CsaDigits \/ s[4] \notin CsaDigits THEN None
       ELSE IF s[1] = "0" /\ s[2] = "0" THEN Checked(new_drop(pc, to))
       ELSE IF s[1] \notin CsaDigits \/ s[2] \notin CsaDigits THEN None
       ELSE IF pc_from = pc THEN Checked(new_unpromote(from, to, pc))
       ELSE IF is_promotable(pc_from) /\ to_promote(pc_from) = pc
       THEN Checked(new_promote(from, to, pc))
       ELSE None

----------------------------------------------------------------------------
(* Inputs of the game specification *)

\* kl7/1n7/K8/9/9/9/1PPPPPPPP/9/9 b P 1
\* movegen.rs test_pawn_drop_mate, with Black pawns on files 1..8
SfenPawnDropMate ==
    <<<<<<"k", "l", "7">>, <<"1", "n", "7">>, <<"K", "8">>, <<"9">>, <<"9">>, <<"9">>, <<"1", "P", "P", "P", "P", "P", "P", "P", "P">>, <<"9">>, <<"9">>>>,
      "b", <<"P">>, "1">>

\* k8/9/4p4/4P4/9/9/9/9/8K b - 1
\* a pawn capture that promotes
SfenCapturePromote ==
    <<<<<<"k", "8">>, <<"9">>, <<"4", "p", "4">>, <<"4", "P", "4">>, <<"9">>, <<"9">>, <<"9">>, <<"9">>, <<"8", "K">>>>,
      "b", <<"-">>, "1">>

\* 4k1g2/9/4N4/pppp1pppp/4L4/9/9/9/8K b p 1
\* the knight move 5c-4a+ or 5c-6a+ discovers the lance: double check
SfenDoubleCheck ==
    <<<<<<"4", "k", "1", "g", "2">>, <<"9">>, <<"4", "N", "4">>, <<"p", "p", "p", "p", "1", "p", "p", "p", "p">>, <<"4", "L", "4">>, <<"9">>, <<"9">>, <<"9">>, <<"8", "K">>>>,
      "b", <<"p">>, "1">>

\* k8/9/9/9/9/4l4/9/4G4/4K4 b - 1
\* the gold on 5h is pinned by the lance on 5f
SfenPinned ==
    <<<<<<"k", "8">>, <<"9">>, <<"9">>, <<"9">>, <<"9">>, <<"4", "l", "4">>, <<"9">>, <<"4", "G", "4">>, <<"4", "K", "4">>>>,
      "b", <<"-">>, "1">>

\* 4k4/ppppppppp/ppppppppp/9/9/9/9/9/4K4 b P 1
\* 19 pawns: rejected by check_pieces
SfenTooManyPawns ==
    <<<<<<"4", "k", "4">>, <<"p", "p", "p", "p", "p", "p", "p", "p", "p">>, <<"p", "p", "p", "p", "p", "p", "p", "p", "p">>, <<"9">>, <<"9">>, <<"9">>, <<"9">>, <<"9">>, <<"4", "K", "4">>>>,
      "b", <<"P">>, "1">>

GameSfens ==
    {SfenPawnDropMate, SfenCapturePromote, SfenDoubleCheck, SfenPinned, SfenTooManyPawns}

----------------------------------------------------------------------------
(* The state machine *)

NULL == 513
P == [base |-> base, states |-> states]
NoSnap == [base |-> PositionBase_zero, states |-> <<>>]
NoList == [kind |-> "none", moves |-> {}]
\* no Position has been made for a search thread
NoWorkers == <<>>
\* no query has been made since the position changed
NoOut == [op |-> "none", value |-> "none"]
\* the record of the last operation: op, the class of the move m played or taken
\* back in the position pos before it was played, and the snapshot to restore
Last(op, m, pos, snap) ==
    [op |-> op,
     drop |-> m # NULL /\ is_drop(m),
     promotion |-> m # NULL /\ is_promotion(m),
     capture |-> m # NULL /\ ~is_drop(m) /\ piece_on(pos, Move_to(m)) # EMPTY,
     king |-> m # NULL /\ ~is_drop(m) /\ is_king(piece_on(pos, Move_from(m))),
     snap |-> snap]

GeneratorKinds == {"captures", "quiets", "evasions", "non_evasions", "legal"}
AMT_of(kind) ==
    CASE kind = "captures" -> CaptureOrPawnPromotionsType
      [] kind = "quiets" -> QuietsWithoutPawnPromotionsType
      [] kind = "evasions" -> EvasionsType
      [] kind = "non_evasions" -> NonEvasionsType
      [] kind = "legal" -> LegalType

Init ==
    /\ base = PositionBase_zero
    /\ states = <<>>
    /\ nodes = 0
    /\ moves = <<>>
    /\ snaps = <<>>
    /\ last = Last("init", NULL, PositionBase_zero, NoSnap)
    /\ mlist = NoList
    /\ sfen \in GameSfens
    /\ result = "none"
    /\ out = NoOut
    /\ workers = NoWorkers

\* Position::new_from_sfen_args(sfen)
Construct ==
    /\ result = "none"
    /\ LET Set(r) == /\ base' = r.base
                      /\ states' = r.states
                      /\ result' = IF r.err = "none" THEN "ok" ELSE r.err
       IN Set(Position_new_from_sfen_args(sfen))
    /\ nodes' = 0
    /\ last' = Last("construct", NULL, PositionBase_zero, NoSnap)
    /\ out' = NoOut
    /\ UNCHANGED <<moves, snaps, mlist, sfen>>
    /\ UNCHANGED workers

\* MoveList::generate::<AMT>(pos, 0); the evasion generator is called in check only,
\* the capture, quiet and non-evasion generators out of check only
Generate(kind) ==
    /\ result = "ok"
    /\ mlist.kind = "none"
    /\ kind = "evasions" => in_check(P)
    /\ kind \in {"captures", "quiets", "non_evasions"} => ~in_check(P)
    /\ mlist' = [kind |-> kind, moves |-> generate(P, AMT_of(kind))]
    /\ UNCHANGED <<base, states, nodes, moves, snaps, last, sfen, result, out>>
    /\ UNCHANGED workers

\* pos.do_move(m, pos.gives_check(m)) for a move m of the legal move list
DoMove(m) ==
    /\ result = "ok"
    /\ mlist.kind = "legal"
    /\ m \in mlist.moves
    /\ nodes < MaxNodes
    /\ LET Set(q) == base' = q.base /\ states' = q.states
       IN Set(do_move(P, m, gives_check(P, m)))
    /\ nodes' = nodes + 1
    /\ moves' = Append(moves, m)
    /\ snaps' = Append(snaps, P)
    /\ last' = Last("do", m, base, NoSnap)
    /\ mlist' = NoList
    /\ out' = NoOut
    /\ UNCHANGED <<sfen, result>>
    /\ UNCHANGED workers

\* pos.undo_move(m) for the move played last
UndoMove ==
    /\ moves # <<>>
    /\ moves[Len(moves)] # NULL
    /\ LET Set(q) == base' = q.base /\ states' = q.states
       IN Set(undo_move(P, moves[Len(moves)]))
    /\ last' = Last("undo", moves[Len(moves)], snaps[Len(snaps)].base, snaps[Len(snaps)])
    /\ moves' = SubSeq(moves, 1, Len(moves) - 1)
    /\ snaps' = SubSeq(snaps, 1, Len(snaps) - 1)
    /\ mlist' = NoList
    /\ out' = NoOut
    /\ UNCHANGED <<nodes, sfen, result>>
    /\ UNCHANGED workers

\* pos.do_null_move(), called out of check only
DoNullMove ==
    /\ result = "ok"
    /\ ~in_check(P)
    /\ Cardinality({i \in 1..Len(moves) : moves[i] = NULL}) < MaxNullMoves
    /\ LET Set(q) == base' = q.base /\ states' = q.states
       IN Set(do_null_move(P))
    /\ moves' = Append(moves, NULL)
    /\ snaps' = Append(snaps, P)
    /\ last' = Last("do_null", NULL, base, NoSnap)
    /\ mlist' = NoList
    /\ out' = NoOut
    /\ UNCHANGED <<nodes, sfen, result>>
    /\ UNCHANGED workers

\* pos.undo_null_move()
UndoNullMove ==
    /\ moves # <<>>
    /\ moves[Len(moves)] = NULL
    /\ LET Set(q) == base' = q.base /\ states' = q.states
       IN Set(undo_null_move(P))
    /\ last' = Last("undo_null", NULL, base, snaps[Len(snaps)])
    /\ moves' = SubSeq(moves, 1, Len(moves) - 1)
    /\ snaps' = SubSeq(snaps, 1, Len(snaps) - 1)
    /\ mlist' = NoList
    /\ out' = NoOut
    /\ UNCHANGED <<nodes, sfen, result>>
    /\ UNCHANGED workers

\* MoveList::generate_recaptures(pos, to), to the target square of the move played last
GenerateRecaptures ==
    /\ result = "ok"
    /\ mlist.kind = "none"
    /\ moves # <<>>
    /\ moves[Len(moves)] # NULL
    /\ mlist' = [kind |-> "recaptures",
                 moves |-> generate_recaptures(P, Move_to(moves[Len(moves)]))]
    /\ UNCHANGED <<base, states, nodes, moves, snaps, last, sfen, result, out>>
    /\ UNCHANGED workers

Next ==
    \/ Construct
    \/ \E kind \in GeneratorKinds : Generate(kind)
    \/ GenerateRecaptures
    \/ \E m \in mlist.moves : DoMove(m)
    \/ UndoMove
    \/ DoNullMove
    \/ UndoNullMove

Spec == Init /\ [][Next]_vars

----------------------------------------------------------------------------
(* The construction specification: new_from_sfen_args on a family of inputs,
   well-formed and not *)

E9 == <<"9">>
TopRanks ==
    {<<"4", "k", "4">>,                                   \* 4k4
     <<"l", "n", "s", "g", "k", "g", "s", "n", "l">>,     \* lnsgkgsnl
     <<"k", "3", "k", "4">>,                              \* k3k4: two White kings
     <<"K", "3", "k", "3", "K">>,                         \* K3k3K: Black kings on both sides
     <<"4", "k", "3">>,                                   \* 4k3: eight files
     <<"4", "k", "5">>,                                   \* 4k5: ten files
     <<"4", "k", "4", "p">>,                              \* 4k4p: a tenth token
     <<"4", "x", "4">>,                                   \* 4x4: not a piece
     <<"9">>}                                             \* no king
BottomRanks ==
    {<<"4", "K", "4">>,                                   \* 4K4
     <<"P", "P", "P", "P", "K", "P", "P", "P", "P">>,     \* PPPPKPPPP
     <<"+P", "3", "K", "3", "+R">>,                       \* +P3K3+R
     <<"9">>}                                             \* no king
SideStrs == {"b", "w", "x"}
HandsStrs ==
    {<<"-">>, <<"P">>, <<"2", "p", "R">>, <<"18", "P", "b">>, <<"19", "P">>,
     <<"P", "P">>, <<"2">>, <<"0", "P">>, <<"K">>}
PlyStrs == {"1", "0", "x"}

SfenInputs ==
    {<<(<<top, E9, E9, E9, E9, E9, E9, E9, bottom>>), side, hs, ply>> :
        top \in TopRanks, bottom \in BottomRanks, side \in SideStrs,
        hs \in HandsStrs, ply \in PlyStrs}
    \cup {<<(<<top, E9, E9, E9, E9, E9, E9, bottom>>), "b", <<"-">>, "1">> :
            top \in TopRanks, bottom \in BottomRanks}
    \cup {<<(<<top, E9, E9, E9, E9, E9, E9, E9, bottom>>), "b", <<"-">>>> :
            top \in TopRanks, bottom \in BottomRanks}

InitSfen ==
    /\ base = PositionBase_zero
    /\ states = <<>>
    /\ nodes = 0
    /\ moves = <<>>
    /\ snaps = <<>>
    /\ last = Last("init", NULL, PositionBase_zero, NoSnap)
    /\ mlist = NoList
    /\ sfen \in SfenInputs
    /\ result = "none"
    /\ out = NoOut
    /\ workers = NoWorkers

\* pos.to_sfen()
ToSfen ==
    /\ result = "ok"
    /\ out = NoOut
    /\ out' = [op |-> "to_sfen", value |-> to_sfen(P)]
    /\ UNCHANGED <<base, states, nodes, moves, snaps, last, mlist, sfen, result>>
    /\ UNCHANGED workers

NextSfen ==
    \/ Construct
    \/ ToSfen

SpecSfen == InitSfen /\ [][NextSfen]_vars

----------------------------------------------------------------------------
(* The repetition specification: the moves of a palette are played from two
   positions and is_repetition is asked after any of them *)

\* the state before construction, with the SFEN input drawn from inputs
InitOn(inputs) ==
    /\ base = PositionBase_zero
    /\ states = <<>>
    /\ nodes = 0
    /\ moves = <<>>
    /\ snaps = <<>>
    /\ last = Last("init", NULL, PositionBase_zero, NoSnap)
    /\ mlist = NoList
    /\ sfen \in inputs
    /\ result = "none"
    /\ out = NoOut
    /\ workers = NoWorkers

\* 8k/9/9/9/9/9/9/9/8K b R2P 1
\* position.rs test_is_repetition
SfenRepetition ==
    <<<<<<"8", "k">>, E9, E9, E9, E9, E9, E9, E9, <<"8", "K">>>>, "b", <<"R", "2", "P">>, "1">>

\* 7k1/7R1/9/9/9/9/9/9/8K w - 1
\* the position of test_is_repetition after R*2b: the rook checks the king on 2a
SfenPerpetualCheck ==
    <<<<<<"7", "k", "1">>, <<"7", "R", "1">>, E9, E9, E9, E9, E9, E9, <<"8", "K">>>>, "w", <<"-">>, "1">>

RepSfens == {SfenRepetition, SfenPerpetualCheck}

\* do_move is not called with MaxRepPlies moves on the stack
MaxRepPlies == 8

\* the moves of test_is_repetition (P*1b, 1a2a, 1b1a+, 2a1a, R*2b, 2a3a, 2b3b, 3a2a,
\* 3b2b) and the king moves 1i2i, 2i1i, as Move::new_from_usi_str builds and accepts them
RepMoves(p) ==
    LET pos == p.base
        us == side_to_move(pos)
        mv(from, to) == new_unpromote(from, to, piece_on(pos, from))
        cand == {new_drop(Piece_new(us, PAWN), 1), new_drop(Piece_new(us, ROOK), 10),
                 new_promote(1, 0, piece_on(pos, 1)),
                 mv(0, 9), mv(9, 0), mv(9, 18), mv(18, 9), mv(10, 19), mv(19, 10),
                 mv(8, 17), mv(17, 8)}
    IN {m \in cand : pseudo_legal(p, m, FALSE) /\ legal(p, m)}

\* pos.do_move(m, pos.gives_check(m)) for a move of the palette
DoMoveRep ==
    /\ result = "ok"
    /\ Len(moves) < MaxRepPlies
    /\ \E m \in RepMoves(P) :
          /\ LET Set(q) == base' = q.base /\ states' = q.states
             IN Set(do_move(P, m, gives_check(P, m)))
          /\ moves' = Append(moves, m)
          /\ last' = Last("do", m, base, NoSnap)
    /\ nodes' = nodes + 1
    /\ snaps' = Append(snaps, P)
    /\ mlist' = NoList
    /\ out' = NoOut
    /\ UNCHANGED <<sfen, result>>
    /\ UNCHANGED workers

\* pos.is_repetition()
IsRepetition ==
    /\ result = "ok"
    /\ out = NoOut
    /\ out' = [op |-> "is_repetition", value |-> is_repetition(P)]
    /\ UNCHANGED <<base, states, nodes, moves, snaps, last, mlist, sfen, result>>
    /\ UNCHANGED workers

InitRep == InitOn(RepSfens)

NextRep ==
    \/ Construct
    \/ DoMoveRep
    \/ DoNullMove
    \/ IsRepetition

SpecRep == InitRep /\ [][NextRep]_vars

----------------------------------------------------------------------------
(* Huffman coded positions *)

\* struct HuffmanCode { value, bit_length }: the codes of the board pieces
HuffmanCode_new(pc) ==
    LET b == [pt \in PieceTypes \ {KING} |->
                CASE pt = PAWN -> <<1, 4>>          [] pt = LANCE -> <<3, 6>>
                  [] pt = KNIGHT -> <<7, 6>>        [] pt = SILVER -> <<11, 6>>
                  [] pt = BISHOP -> <<31, 8>>       [] pt = ROOK -> <<63, 8>>
                  [] pt = GOLD -> <<15, 6>>         [] pt = PRO_PAWN -> <<9, 4>>
                  [] pt = PRO_LANCE -> <<35, 6>>    [] pt = PRO_KNIGHT -> <<39, 6>>
                  [] pt = PRO_SILVER -> <<43, 6>>   [] pt = HORSE -> <<159, 8>>
                  [] pt = DRAGON -> <<191, 8>>]
        w == [pt \in PieceTypes \ {KING} |->
                CASE pt = PAWN -> <<5, 4>>          [] pt = LANCE -> <<19, 6>>
                  [] pt = KNIGHT -> <<23, 6>>       [] pt = SILVER -> <<27, 6>>
                  [] pt = BISHOP -> <<95, 8>>       [] pt = ROOK -> <<127, 8>>
                  [] pt = GOLD -> <<47, 6>>         [] pt = PRO_PAWN -> <<13, 4>>
                  [] pt = PRO_LANCE -> <<51, 6>>    [] pt = PRO_KNIGHT -> <<55, 6>>
                  [] pt = PRO_SILVER -> <<59, 6>>   [] pt = HORSE -> <<223, 8>>
                  [] pt = DRAGON -> <<255, 8>>]
    IN IF pc = EMPTY THEN <<0, 1>>
       ELSE IF Color_new(pc) = BLACK THEN b[PieceType_new(pc)] ELSE w[PieceType_new(pc)]

\* the codes of the hand pieces
HuffmanCode_new_from_color_and_hand_piece_type(c, pt) ==
    LET b == [x \in ALL_HAND |->
                CASE x = PAWN -> <<0, 3>>     [] x = LANCE -> <<1, 5>>
                  [] x = KNIGHT -> <<3, 5>>   [] x = SILVER -> <<5, 5>>
                  [] x = GOLD -> <<7, 5>>     [] x = BISHOP -> <<31, 7>>
                  [] x = ROOK -> <<63, 7>>]
        w == [x \in ALL_HAND |->
                CASE x = PAWN -> <<4, 3>>     [] x = LANCE -> <<17, 5>>
                  [] x = KNIGHT -> <<19, 5>>  [] x = SILVER -> <<21, 5>>
                  [] x = GOLD -> <<23, 5>>    [] x = BISHOP -> <<95, 7>>
                  [] x = ROOK -> <<127, 7>>]
    IN IF c = BLACK THEN b[pt] ELSE w[pt]

\* the pieces HuffmanCode::new and Piece::try_from know
HuffmanPieces ==
    {EMPTY} \cup {Piece_new(c, pt) : c \in Colors, pt \in PieceTypes \ {KING}}

\* Piece::try_from(&hc): the pieces with this code, none on Err(())
Piece_try_from(hc) == {pc \in HuffmanPieces : HuffmanCode_new(pc) = hc}

\* ColorAndPieceTypeForHand::try_from(&hc): every arm of the match yields Color::BLACK
ColorAndPieceTypeForHand_try_from(hc) ==
    {<<BLACK, pt>> : pt \in {x \in ALL_HAND :
        \E c \in Colors : HuffmanCode_new_from_color_and_hand_piece_type(c, x) = hc}}

\* buf: [u8; 32] as its bits, the lowest bit of byte 0 first
HcpBufBits == 32 * 8

\* put_bits_from_lsb(bits, bit_length): the bits written, lowest first
put_bits_from_lsb(bits, bit_length) ==
    [i \in 1..bit_length |-> (bits \div (2 ^ (i - 1))) % 2]

\* get_bits_from_lsb(bit_length) at bit position i of buf
get_bits_from_lsb(buf, i, bit_length) ==
    LET RECURSIVE val(_)
        val(k) == IF k = 0 THEN 0 ELSE buf[i + k] * (2 ^ (k - 1)) + val(k - 1)
    IN val(bit_length)

\* PieceType::ALL_HAND in the order of the loop
ALL_HAND_ORDER == <<PAWN, LANCE, KNIGHT, SILVER, BISHOP, ROOK, GOLD>>

\* game_ply as i16
as_i16(x) == ((x + 32768) % 65536) - 32768

\* HuffmanCodedPosition::from(pos)
HuffmanCodedPosition_from(p) ==
    LET pos == p.base
        code(hc) == put_bits_from_lsb(hc[1], hc[2])
        \* the loop over Square::ALL, for the squares lo..hi
        RECURSIVE board_bits(_, _)
        board_bits(lo, hi) ==
            IF lo = hi
            THEN IF piece_on(pos, lo) \in {Piece_new(BLACK, KING), Piece_new(WHITE, KING)}
                 THEN <<>> ELSE code(HuffmanCode_new(piece_on(pos, lo)))
            ELSE board_bits(lo, (lo + hi) \div 2) \o board_bits((lo + hi) \div 2 + 1, hi)
        RECURSIVE times(_, _)
        times(s, n) == IF n = 0 THEN <<>> ELSE s \o times(s, n - 1)
        RECURSIVE hand_bits(_, _)
        hand_bits(c, k) ==
            IF k > Len(ALL_HAND_ORDER) THEN <<>>
            ELSE times(code(HuffmanCode_new_from_color_and_hand_piece_type(c, ALL_HAND_ORDER[k])),
                       num(hand(pos, c), ALL_HAND_ORDER[k]))
                 \o hand_bits(c, k + 1)
        Fill(bits) ==
            \* a write past the last byte is an index out of bounds
            IF Len(bits) > HcpBufBits THEN [err |-> "panic", buf |-> <<>>, ply |-> 0]
            ELSE [err |-> "none",
                  buf |-> bits \o [i \in 1..(HcpBufBits - Len(bits)) |-> 0],
                  ply |-> as_i16(pos.game_ply)]
    IN Fill(<<side_to_move(pos)>>
            \o put_bits_from_lsb(king_square(pos, BLACK), 7)
            \o put_bits_from_lsb(king_square(pos, WHITE), 7)
            \o board_bits(0, 80) \o hand_bits(BLACK, 1) \o hand_bits(WHITE, 1))

\* the loop that reads one bit at a time until try_from knows the code: the
\* shortest code of at most max_length bits after the i bits already read,
\* "panic" when the reader would index past the buffer, "err" when no code has
\* matched at max_length; known is the set of codes try_from answers Ok for
hcp_read_code(buf, i, known, max_length) ==
    LET avail == IF HcpBufBits - i < max_length THEN HcpBufBits - i ELSE max_length
        lens == {n \in 1..avail : <<get_bits_from_lsb(buf, i, n), n>> \in known}
        First(n) == [err |-> "none", len |-> n, hc |-> <<get_bits_from_lsb(buf, i, n), n>>]
    IN IF lens # {} THEN First(CHOOSE n \in lens : \A m \in lens : n <= m)
       ELSE IF avail < max_length THEN [err |-> "panic", len |-> 0, hc |-> <<0, 0>>]
       ELSE [err |-> "err", len |-> 0, hc |-> <<0, 0>>]

\* the hand loop reads codes of at least three bits from what the header and
\* the 79 squares have left of the buffer
HcpMaxHandCodes == (HcpBufBits - 15 - 79) \div 3

\* PositionBase::new_from_huffman_coded_position; the reader is [err, i, pos]
\* with i the number of bits read
PositionBase_new_from_huffman_coded_position(hcp) ==
    LET buf == hcp.buf
        bksq == get_bits_from_lsb(buf, 1, 7)
        wksq == get_bits_from_lsb(buf, 8, 7)
        \* one pass of the loop over Square::ALL
        square(sq, s) ==
            LET Put(r) ==
                    IF r.err # "none" THEN [s EXCEPT !.err = r.err]
                    ELSE [s EXCEPT !.i = @ + r.len,
                                   !.pos = LET pc == CHOOSE x \in Piece_try_from(r.hc) : TRUE
                                           IN IF pc # EMPTY THEN put_piece(@, pc, sq) ELSE @]
            IN IF s.err # "none" \/ sq = bksq \/ sq = wksq THEN s
               ELSE Put(hcp_read_code(buf, s.i, {HuffmanCode_new(pc) : pc \in HuffmanPieces}, 8))
        RECURSIVE squares(_, _, _)
        squares(lo, hi, s) ==
            LET Then(t) == IF t.err # "none" THEN t ELSE squares((lo + hi) \div 2 + 1, hi, t)
            IN IF lo = hi THEN square(lo, s) ELSE Then(squares(lo, (lo + hi) \div 2, s))
        \* one pass of the loop while bs.slice.len() != bs.current_index
        hand_code(s) ==
            LET Add(r) ==
                    IF r.err # "none" THEN [s EXCEPT !.err = r.err]
                    ELSE [s EXCEPT !.i = @ + r.len,
                                   !.pos = LET cpt == CHOOSE x \in ColorAndPieceTypeForHand_try_from(r.hc) : TRUE
                                           IN [@ EXCEPT !.hands =
                                                  [@ EXCEPT ![cpt[1]] = plus_one(@, cpt[2])]]]
            IN IF s.err # "none" \/ s.i = HcpBufBits THEN s
               ELSE Add(hcp_read_code(buf, s.i,
                        {HuffmanCode_new_from_color_and_hand_piece_type(c, pt) :
                            c \in Colors, pt \in ALL_HAND}, 7))
        RECURSIVE hand_codes(_, _, _)
        hand_codes(lo, hi, s) ==
            LET Then(t) == IF t.err # "none" THEN t ELSE hand_codes((lo + hi) \div 2 + 1, hi, t)
            IN IF lo = hi THEN hand_code(s) ELSE Then(hand_codes(lo, (lo + hi) \div 2, s))
        Finish(s) ==
            IF s.err # "none" THEN Err(s.err)
            ELSE Ok([set_golds_bb(s.pos) EXCEPT !.game_ply = hcp.ply])
    IN IF bksq \notin Sq \/ wksq \notin Sq THEN Err("panic")
       ELSE Finish(hand_codes(1, HcpMaxHandCodes, squares(0, 80,
                [err |-> "none", i |-> 15,
                 pos |-> put_piece(put_piece([PositionBase_zero EXCEPT
                                                  !.side_to_move = buf[1],
                                                  !.king_squares = [c \in Colors |->
                                                      IF c = BLACK THEN bksq ELSE wksq]],
                                             Piece_new(BLACK, KING), bksq),
                                   Piece_new(WHITE, KING), wksq)])))

\* Position::new_from_huffman_coded_position(&HuffmanCodedPosition::from(pos))
Position_new_from_huffman_coded_position(hcp) ==
    LET Wrap(r) ==
            IF r.err = "none"
            THEN [err |-> "none", base |-> r.pos,
                  states |-> <<StateInfo_new_from_position(r.pos)>>]
            ELSE [err |-> r.err, base |-> PositionBase_zero, states |-> <<>>]
    IN Wrap(IF hcp.err # "none" THEN Err(hcp.err)
            ELSE PositionBase_new_from_huffman_coded_position(hcp))

\* lnsgkgsnl/1r5b1/ppppppppp/9/9/9/PPPPPPPPP/1B5R1/LNSGKGSNL b - 1 (START_SFEN,
\* position.rs test_huffman_code) and positions a few pieces away from it
HcpRanksB == {<<"1", "r", "5", "b", "1">>, <<"1", "r", "7">>}
HcpRanksC == {<<"p", "p", "p", "p", "p", "p", "p", "p", "p">>,
              <<"p", "p", "p", "p", "1", "p", "p", "p", "p">>}
HcpRanksG == {<<"P", "P", "P", "P", "P", "P", "P", "P", "P">>,
              <<"P", "P", "P", "P", "1", "P", "P", "P", "P">>}
HcpHandsStrs == {<<"-">>, <<"P">>, <<"p">>, <<"P", "p">>, <<"b">>, <<"B">>}
HcpSfens ==
    {<<(<<(<<"l", "n", "s", "g", "k", "g", "s", "n", "l">>), rb, rc, E9, E9, E9, rg,
           (<<"1", "B", "5", "R", "1">>),
           (<<"L", "N", "S", "G", "K", "G", "S", "N", "L">>)>>), side, hs, ply>> :
        rb \in HcpRanksB, rc \in HcpRanksC, rg \in HcpRanksG, side \in {"b", "w"},
        hs \in HcpHandsStrs, ply \in {"1", "2"}}

\* Position::new_from_huffman_coded_position(&HuffmanCodedPosition::from(&pos))
HcpRoundTrip ==
    /\ result = "ok"
    /\ out = NoOut
    /\ out' = [op |-> "hcp",
               value |-> Position_new_from_huffman_coded_position(HuffmanCodedPosition_from(P))]
    /\ UNCHANGED <<base, states, nodes, moves, snaps, last, mlist, sfen, result>>
    /\ UNCHANGED workers

InitHcp == InitOn(HcpSfens)

NextHcp ==
    \/ Construct
    \/ HcpRoundTrip

SpecHcp == InitHcp /\ [][NextHcp]_vars

----------------------------------------------------------------------------
(* The mate specification: legal moves are played from the positions of
   test_mate_move_in_1ply and mate_move_in_1ply is asked in every position *)

MateSfens ==
    {
     \* 8k/9/8P/9/9/9/9/9/8K b G 1
     <<<<<<"8", "k">>, <<"9">>, <<"8", "P">>, <<"9">>, <<"9">>, <<"9">>, <<"9">>, <<"9">>, <<"8", "K">>>>, "b", <<"G">>, "1">>,
     \* 8k/9/9/9/9/9/9/9/8K b G 1
     <<<<<<"8", "k">>, <<"9">>, <<"9">>, <<"9">>, <<"9">>, <<"9">>, <<"9">>, <<"9">>, <<"8", "K">>>>, "b", <<"G">>, "1">>,
     \* 7bk/9/8P/9/9/9/9/9/8K b G 1
     <<<<<<"7", "b", "k">>, <<"9">>, <<"8", "P">>, <<"9">>, <<"9">>, <<"9">>, <<"9">>, <<"9">>, <<"8", "K">>>>, "b", <<"G">>, "1">>,
     \* 6Rbk/9/8P/9/9/9/9/9/8K b G 1
     <<<<<<"6", "R", "b", "k">>, <<"9">>, <<"8", "P">>, <<"9">>, <<"9">>, <<"9">>, <<"9">>, <<"9">>, <<"8", "K">>>>, "b", <<"G">>, "1">>,
     \* 8k/9/8P/9/9/9/9/9/8K b L 1
     <<<<<<"8", "k">>, <<"9">>, <<"8", "P">>, <<"9">>, <<"9">>, <<"9">>, <<"9">>, <<"9">>, <<"8", "K">>>>, "b", <<"L">>, "1">>,
     \* 7nk/7n1/8P/9/9/9/9/9/8K b L 1
     <<<<<<"7", "n", "k">>, <<"7", "n", "1">>, <<"8", "P">>, <<"9">>, <<"9">>, <<"9">>, <<"9">>, <<"9">>, <<"8", "K">>>>, "b", <<"L">>, "1">>,
     \* 7nk/7n1/8P/9/9/9/9/9/8K b RL 1
     <<<<<<"7", "n", "k">>, <<"7", "n", "1">>, <<"8", "P">>, <<"9">>, <<"9">>, <<"9">>, <<"9">>, <<"9">>, <<"8", "K">>>>, "b", <<"R", "L">>, "1">>,
     \* 7k1/R8/9/9/9/9/9/9/8K b S 1
     <<<<<<"7", "k", "1">>, <<"R", "8">>, <<"9">>, <<"9">>, <<"9">>, <<"9">>, <<"9">>, <<"9">>, <<"8", "K">>>>, "b", <<"S">>, "1">>,
     \* 7pk/7bp/9/9/9/9/9/9/8K b N 1
     <<<<<<"7", "p", "k">>, <<"7", "b", "p">>, <<"9">>, <<"9">>, <<"9">>, <<"9">>, <<"9">>, <<"9">>, <<"8", "K">>>>, "b", <<"N">>, "1">>,
     \* 7pk/7bs/9/9/9/9/9/8L/8K b N 1
     <<<<<<"7", "p", "k">>, <<"7", "b", "s">>, <<"9">>, <<"9">>, <<"9">>, <<"9">>, <<"9">>, <<"8", "L">>, <<"8", "K">>>>, "b", <<"N">>, "1">>,
     \* 7pk/7bs/9/9/9/9/9/9/8K b N 1
     <<<<<<"7", "p", "k">>, <<"7", "b", "s">>, <<"9">>, <<"9">>, <<"9">>, <<"9">>, <<"9">>, <<"9">>, <<"8", "K">>>>, "b", <<"N">>, "1">>,
     \* 7pk/7nn/9/9/8N/9/9/9/8K b - 1
     <<<<<<"7", "p", "k">>, <<"7", "n", "n">>, <<"9">>, <<"9">>, <<"8", "N">>, <<"9">>, <<"9">>, <<"9">>, <<"8", "K">>>>, "b", <<"-">>, "1">>,
     \* 7pk/7nn/9/8s/8N/9/9/9/8K b - 1
     <<<<<<"7", "p", "k">>, <<"7", "n", "n">>, <<"9">>, <<"8", "s">>, <<"8", "N">>, <<"9">>, <<"9">>, <<"9">>, <<"8", "K">>>>, "b", <<"-">>, "1">>,
     \* 7pk/7nn/9/8l/8N/9/9/9/8K b - 1
     <<<<<<"7", "p", "k">>, <<"7", "n", "n">>, <<"9">>, <<"8", "l">>, <<"8", "N">>, <<"9">>, <<"9">>, <<"9">>, <<"8", "K">>>>, "b", <<"-">>, "1">>,
     \* 8k/7nn/9/9/8N/9/9/9/8K b - 1
     <<<<<<"8", "k">>, <<"7", "n", "n">>, <<"9">>, <<"9">>, <<"8", "N">>, <<"9">>, <<"9">>, <<"9">>, <<"8", "K">>>>, "b", <<"-">>, "1">>,
     \* 7nk/7pn/9/9/8N/9/9/9/B7K b - 1
     <<<<<<"7", "n", "k">>, <<"7", "p", "n">>, <<"9">>, <<"9">>, <<"8", "N">>, <<"9">>, <<"9">>, <<"9">>, <<"B", "7", "K">>>>, "b", <<"-">>, "1">>,
     \* 8k/9/8P/8L/9/9/9/9/8K b - 1
     <<<<<<"8", "k">>, <<"9">>, <<"8", "P">>, <<"8", "L">>, <<"9">>, <<"9">>, <<"9">>, <<"9">>, <<"8", "K">>>>, "b", <<"-">>, "1">>,
     \* 7k1/9/7P1/7L1/9/9/9/9/1K7 b - 1
     <<<<<<"7", "k", "1">>, <<"9">>, <<"7", "P", "1">>, <<"7", "L", "1">>, <<"9">>, <<"9">>, <<"9">>, <<"9">>, <<"1", "K", "7">>>>, "b", <<"-">>, "1">>,
     \* 7k1/8g/7P1/7L1/9/9/9/9/1K7 b - 1
     <<<<<<"7", "k", "1">>, <<"8", "g">>, <<"7", "P", "1">>, <<"7", "L", "1">>, <<"9">>, <<"9">>, <<"9">>, <<"9">>, <<"1", "K", "7">>>>, "b", <<"-">>, "1">>,
     \* 7k1/8b/7P1/7L1/9/9/9/9/1K7 b - 1
     <<<<<<"7", "k", "1">>, <<"8", "b">>, <<"7", "P", "1">>, <<"7", "L", "1">>, <<"9">>, <<"9">>, <<"9">>, <<"9">>, <<"1", "K", "7">>>>, "b", <<"-">>, "1">>,
     \* 7p1/7lk/7ll/8L/9/9/9/9/8K b - 1
     <<<<<<"7", "p", "1">>, <<"7", "l", "k">>, <<"7", "l", "l">>, <<"8", "L">>, <<"9">>, <<"9">>, <<"9">>, <<"9">>, <<"8", "K">>>>, "b", <<"-">>, "1">>,
     \* 7p1/7lk/7ll/7BL/9/9/9/9/8K b - 1
     <<<<<<"7", "p", "1">>, <<"7", "l", "k">>, <<"7", "l", "l">>, <<"7", "B", "L">>, <<"9">>, <<"9">>, <<"9">>, <<"9">>, <<"8", "K">>>>, "b", <<"-">>, "1">>,
     \* ln5nl/4g2G1/pr1p1skpp/2P2psR1/1SpPp3B/Pp4G1P/N3PbN2/2G6/L3K3L b Ps4p 1
     <<<<<<"l", "n", "5", "n", "l">>, <<"4", "g", "2", "G", "1">>, <<"p", "r", "1", "p", "1", "s", "k", "p", "p">>, <<"2", "P", "2", "p", "s", "R", "1">>, <<"1", "S", "p", "P", "p", "3", "B">>, <<"P", "p", "4", "G", "1", "P">>, <<"N", "3", "P", "b", "N", "2">>, <<"2", "G", "6">>, <<"L", "3", "K", "3", "L">>>>, "b", <<"P", "s", "4", "p">>, "1">>,
     \* +L7R/3pp4/1bSk5/+B2+n3n1/1K1L1s3/1PG6/2+ng1+n2P/2+p6/1+pL2+p1+p1 b R3P2g2sl7p 1
     <<<<<<"+L", "7", "R">>, <<"3", "p", "p", "4">>, <<"1", "b", "S", "k", "5">>, <<"+B", "2", "+n", "3", "n", "1">>, <<"1", "K", "1", "L", "1", "s", "3">>, <<"1", "P", "G", "6">>, <<"2", "+n", "g", "1", "+n", "2", "P">>, <<"2", "+p", "6">>, <<"1", "+p", "L", "2", "+p", "1", "+p", "1">>>>, "b", <<"R", "3", "P", "2", "g", "2", "s", "l", "7", "p">>, "1">>,
     \* 3+rn4/RP6+S/2p2+Pp1p/4P2k1/4K+P3/p1P+p2PP1/+p4+pB2/S+p1+p+n+b2P/4S3+p w 3G2N2Lgs2l 1
     <<<<<<"3", "+r", "n", "4">>, <<"R", "P", "6", "+S">>, <<"2", "p", "2", "+P", "p", "1", "p">>, <<"4", "P", "2", "k", "1">>, <<"4", "K", "+P", "3">>, <<"p", "1", "P", "+p", "2", "P", "P", "1">>, <<"+p", "4", "+p", "B", "2">>, <<"S", "+p", "1", "+p", "+n", "+b", "2", "P">>, <<"4", "S", "3", "+p">>>>, "w", <<"3", "G", "2", "N", "2", "L", "g", "s", "2", "l">>, "1">>,
     \* 4l1l1p/G+P2+L4/2+P1+PpS+S+S/l3p1K2/1G+p3+P1k/+p+bp1+p2P+p/5g2+p/G2+BP2S1/1+p1+p1PN2 w RNr2n 1
     <<<<<<"4", "l", "1", "l", "1", "p">>, <<"G", "+P", "2", "+L", "4">>, <<"2", "+P", "1", "+P", "p", "S", "+S", "+S">>, <<"l", "3", "p", "1", "K", "2">>, <<"1", "G", "+p", "3", "+P", "1", "k">>, <<"+p", "+b", "p", "1", "+p", "2", "P", "+p">>, <<"5", "g", "2", "+p">>, <<"G", "2", "+B", "P", "2", "S", "1">>, <<"1", "+p", "1", "+p", "1", "P", "N", "2">>>>, "w", <<"R", "N", "r", "2", "n">>, "1">>,
     \* 2g1+Pp3/+P2+Pn1g2/1gkLK1n2/9/+P1+PS1P3/pl1P2+p2/1LP1N+s+pp1/PP2P2SL/N2S2PPg b 2R2B 1
     <<<<<<"2", "g", "1", "+P", "p", "3">>, <<"+P", "2", "+P", "n", "1", "g", "2">>, <<"1", "g", "k", "L", "K", "1", "n", "2">>, <<"9">>, <<"+P", "1", "+P", "S", "1", "P", "3">>, <<"p", "l", "1", "P", "2", "+p", "2">>, <<"1", "L", "P", "1", "N", "+s", "+p", "p", "1">>, <<"P", "P", "2", "P", "2", "S", "L">>, <<"N", "2", "S", "2", "P", "P", "g">>>>, "b", <<"2", "R", "2", "B">>, "1">>,
     \* 5pp2/prp1l2+Pl/1SSpnk3/1K7/3+P+p2+P1/1P7/P1g+lpNR2/1p2PL2P/3+p1P1P1 b G2SN2b2gn 1
     <<<<<<"5", "p", "p", "2">>, <<"p", "r", "p", "1", "l", "2", "+P", "l">>, <<"1", "S", "S", "p", "n", "k", "3">>, <<"1", "K", "7">>, <<"3", "+P", "+p", "2", "+P", "1">>, <<"1", "P", "7">>, <<"P", "1", "g", "+l", "p", "N", "R", "2">>, <<"1", "p", "2", "P", "L", "2", "P">>, <<"3", "+p", "1", "P", "1", "P", "1">>>>, "b", <<"G", "2", "S", "N", "2", "b", "2", "g", "n">>, "1">>
    }

\* do_move is not called with MaxLegalPlies moves on the stack
MaxLegalPlies == 1

\* pos.do_move(m, pos.gives_check(m)) for a move of generate::<LegalType>
DoMoveLegal ==
    /\ result = "ok"
    /\ Len(moves) < MaxLegalPlies
    /\ \E m \in generate(P, LegalType) :
          /\ LET Set(q) == base' = q.base /\ states' = q.states
             IN Set(do_move(P, m, gives_check(P, m)))
          /\ moves' = Append(moves, m)
          /\ last' = Last("do", m, base, NoSnap)
    /\ nodes' = nodes + 1
    /\ snaps' = Append(snaps, P)
    /\ mlist' = NoList
    /\ out' = NoOut
    /\ UNCHANGED <<sfen, result>>
    /\ UNCHANGED workers

\* pos.mate_move_in_1ply()
MateMoveIn1Ply ==
    /\ result = "ok"
    /\ out = NoOut
    /\ out' = [op |-> "mate_move_in_1ply", value |-> mate_move_in_1ply(P)]
    /\ UNCHANGED <<base, states, nodes, moves, snaps, last, mlist, sfen, result>>
    /\ UNCHANGED workers

InitMate == InitOn(MateSfens)

NextMate ==
    \/ Construct
    \/ DoMoveLegal
    \/ MateMoveIn1Ply

SpecMate == InitMate /\ [][NextMate]_vars

----------------------------------------------------------------------------
(* The entering king specification: is_entering_king_win is asked in the
   positions of test_is_entering_king_win, in two positions one point short,
   and after the legal moves from them *)

EnteringKingSfens ==
    {
     \* 1p7/KRRBBPPPP/NN7/9/9/9/9/9/8k b 2P 1
     <<<<<<"1", "p", "7">>, <<"K", "R", "R", "B", "B", "P", "P", "P", "P">>, <<"N", "N", "7">>, <<"9">>, <<"9">>, <<"9">>, <<"9">>, <<"9">>, <<"8", "k">>>>, "b", <<"2", "P">>, "1">>,
     \* 1p7/KRRBBPPPP/NN7/9/9/9/9/9/8k w 2P 1
     <<<<<<"1", "p", "7">>, <<"K", "R", "R", "B", "B", "P", "P", "P", "P">>, <<"N", "N", "7">>, <<"9">>, <<"9">>, <<"9">>, <<"9">>, <<"9">>, <<"8", "k">>>>, "w", <<"2", "P">>, "1">>,
     \* pp7/KRRBBPPPP/NN7/9/9/9/9/9/8k b 2P 1
     <<<<<<"p", "p", "7">>, <<"K", "R", "R", "B", "B", "P", "P", "P", "P">>, <<"N", "N", "7">>, <<"9">>, <<"9">>, <<"9">>, <<"9">>, <<"9">>, <<"8", "k">>>>, "b", <<"2", "P">>, "1">>,
     \* 1p7/1RRBBPPPP/NNN6/K8/9/9/9/9/8k b 2P 1
     <<<<<<"1", "p", "7">>, <<"1", "R", "R", "B", "B", "P", "P", "P", "P">>, <<"N", "N", "N", "6">>, <<"K", "8">>, <<"9">>, <<"9">>, <<"9">>, <<"9">>, <<"8", "k">>>>, "b", <<"2", "P">>, "1">>,
     \* 1p7/KRRBBPPPP/N8/9/9/9/9/9/8k b 3P 1
     <<<<<<"1", "p", "7">>, <<"K", "R", "R", "B", "B", "P", "P", "P", "P">>, <<"N", "8">>, <<"9">>, <<"9">>, <<"9">>, <<"9">>, <<"9">>, <<"8", "k">>>>, "b", <<"3", "P">>, "1">>,
     \* 1p7/KRRBBPPPP/N8/N8/9/9/9/9/8k b 2P 1
     <<<<<<"1", "p", "7">>, <<"K", "R", "R", "B", "B", "P", "P", "P", "P">>, <<"N", "8">>, <<"N", "8">>, <<"9">>, <<"9">>, <<"9">>, <<"9">>, <<"8", "k">>>>, "b", <<"2", "P">>, "1">>,
     \* 1pGGGGS2/KRRB1PPPP/N8/N8/9/9/9/9/8k b 2P 1
     <<<<<<"1", "p", "G", "G", "G", "G", "S", "2">>, <<"K", "R", "R", "B", "1", "P", "P", "P", "P">>, <<"N", "8">>, <<"N", "8">>, <<"9">>, <<"9">>, <<"9">>, <<"9">>, <<"8", "k">>>>, "b", <<"2", "P">>, "1">>,
     \* K8/9/9/9/9/9/nn7/krrbbpppp/1P7 w p 2
     <<<<<<"K", "8">>, <<"9">>, <<"9">>, <<"9">>, <<"9">>, <<"9">>, <<"n", "n", "7">>, <<"k", "r", "r", "b", "b", "p", "p", "p", "p">>, <<"1", "P", "7">>>>, "w", <<"p">>, "2">>,
     \* K8/9/9/9/9/9/nn7/krrbbpppp/1P7 b p 2
     <<<<<<"K", "8">>, <<"9">>, <<"9">>, <<"9">>, <<"9">>, <<"9">>, <<"n", "n", "7">>, <<"k", "r", "r", "b", "b", "p", "p", "p", "p">>, <<"1", "P", "7">>>>, "b", <<"p">>, "2">>,
     \* K8/9/9/9/9/9/nn7/krrbbpppp/PP7 w p 2
     <<<<<<"K", "8">>, <<"9">>, <<"9">>, <<"9">>, <<"9">>, <<"9">>, <<"n", "n", "7">>, <<"k", "r", "r", "b", "b", "p", "p", "p", "p">>, <<"P", "P", "7">>>>, "w", <<"p">>, "2">>,
     \* K8/9/9/9/9/k8/nn7/1rrbbpppp/1P7 w p 2
     <<<<<<"K", "8">>, <<"9">>, <<"9">>, <<"9">>, <<"9">>, <<"k", "8">>, <<"n", "n", "7">>, <<"1", "r", "r", "b", "b", "p", "p", "p", "p">>, <<"1", "P", "7">>>>, "w", <<"p">>, "2">>,
     \* K8/9/9/9/9/9/n8/krrbbpppp/1P7 w 2p 2
     <<<<<<"K", "8">>, <<"9">>, <<"9">>, <<"9">>, <<"9">>, <<"9">>, <<"n", "8">>, <<"k", "r", "r", "b", "b", "p", "p", "p", "p">>, <<"1", "P", "7">>>>, "w", <<"2", "p">>, "2">>,
     \* K8/9/9/9/9/n8/n8/krrbbpppp/1P7 w p 2
     <<<<<<"K", "8">>, <<"9">>, <<"9">>, <<"9">>, <<"9">>, <<"n", "8">>, <<"n", "8">>, <<"k", "r", "r", "b", "b", "p", "p", "p", "p">>, <<"1", "P", "7">>>>, "w", <<"p">>, "2">>,
     \* K8/9/9/9/9/n8/n8/krrb1pppp/1Pggggs2 w p 2
     <<<<<<"K", "8">>, <<"9">>, <<"9">>, <<"9">>, <<"9">>, <<"n", "8">>, <<"n", "8">>, <<"k", "r", "r", "b", "1", "p", "p", "p", "p">>, <<"1", "P", "g", "g", "g", "g", "s", "2">>>>, "w", <<"p">>, "2">>,
     \* 1p7/KRRBPPPPP/NN7/9/9/9/9/9/8k b BP 1
     <<<<<<"1", "p", "7">>, <<"K", "R", "R", "B", "P", "P", "P", "P", "P">>, <<"N", "N", "7">>, <<"9">>, <<"9">>, <<"9">>, <<"9">>, <<"9">>, <<"8", "k">>>>, "b", <<"B", "P">>, "1">>,
     \* 1p7/KR+RB+PPPPP/NN7/9/9/9/9/9/8k b BP 1
     <<<<<<"1", "p", "7">>, <<"K", "R", "+R", "B", "+P", "P", "P", "P", "P">>, <<"N", "N", "7">>, <<"9">>, <<"9">>, <<"9">>, <<"9">>, <<"9">>, <<"8", "k">>>>, "b", <<"B", "P">>, "1">>,
     \* 1p7/KRRBPPPPP/NN7/9/9/9/9/9/8k w BP 1
     <<<<<<"1", "p", "7">>, <<"K", "R", "R", "B", "P", "P", "P", "P", "P">>, <<"N", "N", "7">>, <<"9">>, <<"9">>, <<"9">>, <<"9">>, <<"9">>, <<"8", "k">>>>, "w", <<"B", "P">>, "1">>,
     \* pp7/KRRBPPPPP/NN7/9/9/9/9/9/8k b BP 1
     <<<<<<"p", "p", "7">>, <<"K", "R", "R", "B", "P", "P", "P", "P", "P">>, <<"N", "N", "7">>, <<"9">>, <<"9">>, <<"9">>, <<"9">>, <<"9">>, <<"8", "k">>>>, "b", <<"B", "P">>, "1">>,
     \* 1p7/1RRBPPPPP/NNN6/K8/9/9/9/9/8k b BP 1
     <<<<<<"1", "p", "7">>, <<"1", "R", "R", "B", "P", "P", "P", "P", "P">>, <<"N", "N", "N", "6">>, <<"K", "8">>, <<"9">>, <<"9">>, <<"9">>, <<"9">>, <<"8", "k">>>>, "b", <<"B", "P">>, "1">>,
     \* 1p7/KRRBPPPPP/N8/9/9/9/9/9/8k b B2P 1
     <<<<<<"1", "p", "7">>, <<"K", "R", "R", "B", "P", "P", "P", "P", "P">>, <<"N", "8">>, <<"9">>, <<"9">>, <<"9">>, <<"9">>, <<"9">>, <<"8", "k">>>>, "b", <<"B", "2", "P">>, "1">>,
     \* 1pGGGGS2/KR1BPPPPP/N8/N8/9/9/9/9/8k b BP 1
     <<<<<<"1", "p", "G", "G", "G", "G", "S", "2">>, <<"K", "R", "1", "B", "P", "P", "P", "P", "P">>, <<"N", "8">>, <<"N", "8">>, <<"9">>, <<"9">>, <<"9">>, <<"9">>, <<"8", "k">>>>, "b", <<"B", "P">>, "1">>,
     \* K8/9/9/9/9/9/nn7/krrbppppp/1P7 w b 2
     <<<<<<"K", "8">>, <<"9">>, <<"9">>, <<"9">>, <<"9">>, <<"9">>, <<"n", "n", "7">>, <<"k", "r", "r", "b", "p", "p", "p", "p", "p">>, <<"1", "P", "7">>>>, "w", <<"b">>, "2">>,
     \* K8/9/9/9/9/9/nn7/kr+rb+ppppp/1P7 w b 2
     <<<<<<"K", "8">>, <<"9">>, <<"9">>, <<"9">>, <<"9">>, <<"9">>, <<"n", "n", "7">>, <<"k", "r", "+r", "b", "+p", "p", "p", "p", "p">>, <<"1", "P", "7">>>>, "w", <<"b">>, "2">>,
     \* K8/9/9/9/9/9/nn7/krrbppppp/1P7 b b 1
     <<<<<<"K", "8">>, <<"9">>, <<"9">>, <<"9">>, <<"9">>, <<"9">>, <<"n", "n", "7">>, <<"k", "r", "r", "b", "p", "p", "p", "p", "p">>, <<"1", "P", "7">>>>, "b", <<"b">>, "1">>,
     \* K8/9/9/9/9/9/nn7/krrbppppp/PP7 w b 2
     <<<<<<"K", "8">>, <<"9">>, <<"9">>, <<"9">>, <<"9">>, <<"9">>, <<"n", "n", "7">>, <<"k", "r", "r", "b", "p", "p", "p", "p", "p">>, <<"P", "P", "7">>>>, "w", <<"b">>, "2">>,
     \* K8/9/9/9/9/k8/nnn6/1rrbppppp/1P w b 2
     <<<<<<"K", "8">>, <<"9">>, <<"9">>, <<"9">>, <<"9">>, <<"k", "8">>, <<"n", "n", "n", "6">>, <<"1", "r", "r", "b", "p", "p", "p", "p", "p">>, <<"1", "P">>>>, "w", <<"b">>, "2">>,
     \* K8/9/9/9/9/9/n8/krrbppppp/1P7 w bp 2
     <<<<<<"K", "8">>, <<"9">>, <<"9">>, <<"9">>, <<"9">>, <<"9">>, <<"n", "8">>, <<"k", "r", "r", "b", "p", "p", "p", "p", "p">>, <<"1", "P", "7">>>>, "w", <<"b", "p">>, "2">>,
     \* K8/9/9/9/9/n8/n8/kr1bppppp/1Pggggs2 w b 2
     <<<<<<"K", "8">>, <<"9">>, <<"9">>, <<"9">>, <<"9">>, <<"n", "8">>, <<"n", "8">>, <<"k", "r", "1", "b", "p", "p", "p", "p", "p">>, <<"1", "P", "g", "g", "g", "g", "s", "2">>>>, "w", <<"b">>, "2">>,
     \* 1p7/KRRBBPPPP/NN7/9/9/9/9/9/8k b P 1
     <<<<<<"1", "p", "7">>, <<"K", "R", "R", "B", "B", "P", "P", "P", "P">>, <<"N", "N", "7">>, <<"9">>, <<"9">>, <<"9">>, <<"9">>, <<"9">>, <<"8", "k">>>>, "b", <<"P">>, "1">>,
     \* K8/9/9/9/9/9/nn7/krrbbpppp/1P7 w - 2
     <<<<<<"K", "8">>, <<"9">>, <<"9">>, <<"9">>, <<"9">>, <<"9">>, <<"n", "n", "7">>, <<"k", "r", "r", "b", "b", "p", "p", "p", "p">>, <<"1", "P", "7">>>>, "w", <<"-">>, "2">>
    }

\* pos.is_entering_king_win()
IsEnteringKingWin ==
    /\ result = "ok"
    /\ out = NoOut
    /\ out' = [op |-> "is_entering_king_win", value |-> is_entering_king_win(P)]
    /\ UNCHANGED <<base, states, nodes, moves, snaps, last, mlist, sfen, result>>
    /\ UNCHANGED workers

InitEnteringKing == InitOn(EnteringKingSfens)

NextEnteringKing ==
    \/ Construct
    \/ DoMoveLegal
    \/ IsEnteringKingWin

SpecEnteringKing == InitEnteringKing /\ [][NextEnteringKing]_vars

----------------------------------------------------------------------------
(* The CSA specification: every legal move is written as a CSA string and read
   back, and the strings of a palette are read, in the start position, the
   game positions and the positions one legal move away *)

\* lnsgkgsnl/1r5b1/ppppppppp/9/9/9/PPPPPPPPP/1B5R1/LNSGKGSNL b - 1
START_SFEN ==
    <<<<<<"l", "n", "s", "g", "k", "g", "s", "n", "l">>, <<"1", "r", "5", "b", "1">>,
        <<"p", "p", "p", "p", "p", "p", "p", "p", "p">>, E9, E9, E9,
        <<"P", "P", "P", "P", "P", "P", "P", "P", "P">>, <<"1", "B", "5", "R", "1">>,
        <<"L", "N", "S", "G", "K", "G", "S", "N", "L">>>>, "b", <<"-">>, "1">>

CsaSfens == {START_SFEN, SfenPawnDropMate, SfenCapturePromote, SfenDoubleCheck, SfenPinned}

\* 7776FU and 7775FU of test_move_new_from_csa_str, a pawn drop, a promotion, a
\* drop of a promoted pawn, a piece that is not on the square, letters that
\* name no piece, a rank that is no digit
CsaStrs ==
    {<<"7", "7", "7", "6", "FU">>, <<"7", "7", "7", "5", "FU">>, <<"0", "0", "5", "5", "FU">>,
     <<"5", "4", "5", "3", "TO">>, <<"0", "0", "5", "5", "TO">>, <<"5", "4", "5", "3", "KI">>,
     <<"7", "7", "7", "6", "XX">>, <<"7", "7", "7", "a", "FU">>}

\* Move::new_from_csa_str(&m.to_csa_string(&pos), &pos) for a legal move m
CsaRoundTrip ==
    /\ result = "ok"
    /\ out = NoOut
    /\ \E m \in generate(P, LegalType) :
          out' = [op |-> "csa_round_trip",
                  value |-> [m |-> m, s |-> to_csa_string(m, P),
                             back |-> new_from_csa_str(to_csa_string(m, P), P)]]
    /\ UNCHANGED <<base, states, nodes, moves, snaps, last, mlist, sfen, result>>
    /\ UNCHANGED workers

\* Move::new_from_csa_str(s, &pos) for a string of the palette
CsaParse ==
    /\ result = "ok"
    /\ out = NoOut
    /\ \E s \in CsaStrs :
          out' = [op |-> "new_from_csa_str",
                  value |-> [m |-> 0, s |-> s, back |-> new_from_csa_str(s, P)]]
    /\ UNCHANGED <<base, states, nodes, moves, snaps, last, mlist, sfen, result>>
    /\ UNCHANGED workers

InitCsa == InitOn(CsaSfens)

NextCsa ==
    \/ Construct
    \/ DoMoveLegal
    \/ CsaRoundTrip
    \/ CsaParse

SpecCsa == InitCsa /\ [][NextCsa]_vars

----------------------------------------------------------------------------
(* The node counter specification: search threads each get a Position from
   new_from_position with a clone of one Arc<AtomicI64>, the counter nodes, and
   call do_move, undo_move, do_null_move, undo_null_move and nodes_searched in
   any interleaving *)

\* the search threads
Workers == 1..2

\* a thread does not call do_move with MaxWorkerPlies moves on its stack
MaxWorkerPlies == 2

\* a thread does not call do_move more than MaxWorkerCalls times
MaxWorkerCalls == 2

\* nodes_searched has not been called by the thread
NotSeen == -1

\* (*self.nodes).fetch_add(1, Ordering::Relaxed) without the atomicity of the
\* read-modify-write: the thread adds one to the value it saw last
fetch_add_to_stale_value(latest, view) == view + 1

\* (*self.nodes).fetch_add(1, Ordering::Relaxed): a read-modify-write reads the
\* latest value in the modification order of the counter, whatever the value
\* view the thread saw last
fetch_add(latest, view) == latest + 1

\* (*self.nodes).load(Ordering::Relaxed): any value of the modification order
\* not older than the one the thread saw last (coherence), the latest or a stale one
load_relaxed(latest, view) == view..latest

\* Position::new_from_position(pos, nodes): base and states are cloned, the counter is shared
new_from_position(p) == [base |-> p.base, states |-> p.states]

\* the thread's Position, its stack of moves played (NULL = null move), the
\* number of its do_move calls, the newest value of the counter it has seen,
\* the value its last nodes_searched returned and whether it has finished
Worker(pos, stack, calls, view, seen, done) ==
    [pos |-> pos, moves |-> stack, calls |-> calls, view |-> view, seen |-> seen, done |-> done]

Running(t) == t \in DOMAIN workers /\ ~workers[t].done

\* thread t is started with Position::new_from_position(&pos, nodes.clone())
NewFromPosition(t) ==
    /\ result = "ok"
    /\ t \notin DOMAIN workers
    /\ workers' = [u \in DOMAIN workers \cup {t} |->
                     IF u = t THEN Worker(new_from_position(P), <<>>, 0, nodes, NotSeen, FALSE)
                     ELSE workers[u]]
    /\ UNCHANGED <<base, states, nodes, moves, snaps, last, mlist, sfen, result, out>>

\* thread t: pos.do_move(m, pos.gives_check(m)) for a move of the palette
WorkerDoMove(t) ==
    /\ Running(t)
    /\ LET w == workers[t] IN
          /\ Len(w.moves) < MaxWorkerPlies
          /\ w.calls < MaxWorkerCalls
          /\ \E m \in RepMoves(w.pos) :
                LET Set(q, n) ==
                        /\ nodes' = n
                        /\ workers' = [workers EXCEPT ![t] =
                               Worker(q, Append(w.moves, m), w.calls + 1, n, w.seen, FALSE)]
                IN Set(do_move(w.pos, m, gives_check(w.pos, m)), fetch_add(nodes, w.view))
    /\ UNCHANGED <<base, states, moves, snaps, last, mlist, sfen, result, out>>

\* thread t: pos.undo_move(m) for the move on top of its stack
WorkerUndoMove(t) ==
    /\ Running(t)
    /\ LET w == workers[t] IN
          /\ w.moves # <<>>
          /\ w.moves[Len(w.moves)] # NULL
          /\ workers' = [workers EXCEPT ![t] =
                 Worker(undo_move(w.pos, w.moves[Len(w.moves)]),
                        SubSeq(w.moves, 1, Len(w.moves) - 1), w.calls, w.view, w.seen, FALSE)]
    /\ UNCHANGED <<base, states, nodes, moves, snaps, last, mlist, sfen, result, out>>

\* thread t: pos.do_null_move(), called out of check only
WorkerDoNullMove(t) ==
    /\ Running(t)
    /\ LET w == workers[t] IN
          /\ ~in_check(w.pos)
          /\ Cardinality({i \in 1..Len(w.moves) : w.moves[i] = NULL}) < MaxNullMoves
          /\ workers' = [workers EXCEPT ![t] =
                 Worker(do_null_move(w.pos), Append(w.moves, NULL), w.calls, w.view, w.seen, FALSE)]
    /\ UNCHANGED <<base, states, nodes, moves, snaps, last, mlist, sfen, result, out>>

\* thread t: pos.undo_null_move()
WorkerUndoNullMove(t) ==
    /\ Running(t)
    /\ LET w == workers[t] IN
          /\ w.moves # <<>>
          /\ w.moves[Len(w.moves)] = NULL
          /\ workers' = [workers EXCEPT ![t] =
                 Worker(undo_null_move(w.pos), SubSeq(w.moves, 1, Len(w.moves) - 1),
                        w.calls, w.view, w.seen, FALSE)]
    /\ UNCHANGED <<base, states, nodes, moves, snaps, last, mlist, sfen, result, out>>

\* thread t: pos.nodes_searched()
WorkerNodesSearched(t) ==
    /\ Running(t)
    /\ LET w == workers[t] IN
          \E v \in load_relaxed(nodes, w.view) :
              workers' = [workers EXCEPT ![t] = Worker(w.pos, w.moves, w.calls, v, v, FALSE)]
    /\ UNCHANGED <<base, states, nodes, moves, snaps, last, mlist, sfen, result, out>>

\* thread t returns
WorkerFinish(t) ==
    /\ Running(t)
    /\ workers' = [workers EXCEPT ![t].done = TRUE]
    /\ UNCHANGED <<base, states, nodes, moves, snaps, last, mlist, sfen, result, out>>

InitNodes == InitOn({SfenRepetition})

NextNodes ==
    \/ Construct
    \/ \E t \in Workers : NewFromPosition(t)
    \/ \E t \in Workers : WorkerDoMove(t)
    \/ \E t \in Workers : WorkerUndoMove(t)
    \/ \E t \in Workers : WorkerDoNullMove(t)
    \/ \E t \in Workers : WorkerUndoNullMove(t)
    \/ \E t \in Workers : WorkerNodesSearched(t)
    \/ \E t \in Workers : WorkerFinish(t)

SpecNodes == InitNodes /\ [][NextNodes]_vars

----------------------------------------------------------------------------
(* The generate_all specification: the three generator types are run in the
   position of test_generate_all, in a position with pawns and lances in front
   of the promotion zone, in the game positions and after the legal moves
   from them *)

\* l6nl/5+P1gk/2np1S3/p1p4Pp/3P2Sp1/1PPb2P1P/P5GS1/R8/LN4bKL w GR5pnsg 1
\* movegen.rs test_generate_all
SfenGenerateAll ==
    <<<<<<"l", "6", "n", "l">>, <<"5", "+P", "1", "g", "k">>, <<"2", "n", "p", "1", "S", "3">>, <<"p", "1", "p", "4", "P", "p">>, <<"3", "P", "2", "S", "p", "1">>, <<"1", "P", "P", "b", "2", "P", "1", "P">>, <<"P", "5", "G", "S", "1">>, <<"R", "8">>, <<"L", "N", "4", "b", "K", "L">>>>,
      "w", <<"G", "R", "5", "p", "n", "s", "g">>, "1">>

\* 4k4/9/p8/L3P3L/4S1N2/9/9/1B5R1/4K4 b Pl 1
\* the pawn on 5d promotes on an empty square, the lance on 9d captures on rank
\* 3, the lance on 1d reaches rank 3 without a capture, the knight on 3e promotes or not
SfenPromotionZone ==
    <<<<<<"4", "k", "4">>, <<"9">>, <<"p", "8">>, <<"L", "3", "P", "3", "L">>, <<"4", "S", "1", "N", "2">>, <<"9">>, <<"9">>, <<"1", "B", "5", "R", "1">>, <<"4", "K", "4">>>>,
      "b", <<"P", "l">>, "1">>

GenerateAllSfens == GameSfens \cup {SfenGenerateAll, SfenPromotionZone}

\* mlist.generate_all::<AMT>(&pos, 0) for the three generator types, out of check
GenerateAll ==
    /\ result = "ok"
    /\ out = NoOut
    /\ ~in_check(P)
    /\ out' = [op |-> "generate_all",
               value |-> [non_evasions |-> generate_all(P, NonEvasionsType),
                          captures |-> generate_all(P, CaptureOrPawnPromotionsType),
                          quiets |-> generate_all(P, QuietsWithoutPawnPromotionsType)]]
    /\ UNCHANGED <<base, states, nodes, moves, snaps, last, mlist, sfen, result>>
    /\ UNCHANGED workers

InitGenerateAll == InitOn(GenerateAllSfens)

NextGenerateAll ==
    \/ Construct
    \/ DoMoveLegal
    \/ GenerateAll

SpecGenerateAll == InitGenerateAll /\ [][NextGenerateAll]_vars

----------------------------------------------------------------------------
(* The check specification: every legal move is played with
   do_move(m, gives_check(m)) in the positions of test_position_gives_check,
   of test_mate_move_in_1ply and of the game specification *)

\* 8k/9/9/9/9/9/9/9/K8 b Rr 1
\* position.rs test_position_gives_check: R*1b and R*1h check, R*2b does not
SfenGivesCheckBlack ==
    <<<<<<"8", "k">>, <<"9">>, <<"9">>, <<"9">>, <<"9">>, <<"9">>, <<"9">>, <<"9">>, <<"K", "8">>>>,
      "b", <<"R", "r">>, "1">>

\* 8k/9/9/9/9/9/9/9/K8 w Rr 1
\* position.rs test_position_gives_check: R*9h and R*9b check, R*8h does not
SfenGivesCheckWhite ==
    <<<<<<"8", "k">>, <<"9">>, <<"9">>, <<"9">>, <<"9">>, <<"9">>, <<"9">>, <<"9">>, <<"K", "8">>>>,
      "w", <<"R", "r">>, "1">>

\* 8k/9/9/9/9/9/9/8G/K7L b Rr 1
\* position.rs test_position_gives_check: 1h2h discovers the lance, 1h1g does not
SfenGivesCheckDiscovered ==
    <<<<<<"8", "k">>, <<"9">>, <<"9">>, <<"9">>, <<"9">>, <<"9">>, <<"9">>, <<"8", "G">>, <<"K", "7", "L">>>>,
      "b", <<"R", "r">>, "1">>

CheckSfens ==
    MateSfens \cup GameSfens
    \cup {SfenGivesCheckBlack, SfenGivesCheckWhite, SfenGivesCheckDiscovered}

InitCheck == InitOn(CheckSfens)

NextCheck ==
    \/ Construct
    \/ DoMoveLegal

SpecCheck == InitCheck /\ [][NextCheck]_vars

----------------------------------------------------------------------------
(* The legality specification: pos.legal(m) is asked for every board move that
   pos.pseudo_legal accepts, in the positions of the check specification and
   after every legal move from them *)

\* the board moves of the side to move: any own piece to any square, promoting or not
BoardMoves(p) ==
    UNION {{new_unpromote(from, to, piece_on(p.base, from)),
            new_promote(from, to, piece_on(p.base, from))} :
             from \in pieces_c(p.base, side_to_move(p.base)), to \in Sq}

\* pos.legal(m) for every board move m with pos.pseudo_legal::<NotSearching or Searching>(m)
Legal ==
    /\ result = "ok"
    /\ out = NoOut
    /\ out' = [op |-> "legal",
               value |-> {<<m, legal(P, m)>> :
                            m \in {n \in BoardMoves(P) :
                                     pseudo_legal(P, n, FALSE) \/ pseudo_legal(P, n, TRUE)}}]
    /\ UNCHANGED <<base, states, nodes, moves, snaps, last, mlist, sfen, result>>
    /\ UNCHANGED workers

NextLegal ==
    \/ Construct
    \/ DoMoveLegal
    \/ Legal

SpecLegal == InitCheck /\ [][NextLegal]_vars

----------------------------------------------------------------------------
(* The drop pawn mate specification: is_drop_pawn_mate is asked for the empty
   square in front of the king of the side not to move, in positions made for
   it, in the positions of the check specification and after every legal move
   from them *)

DropPawnMateSfens ==
    {
     \* kl7/1n7/K8/9/9/9/9/9/9 b P 1
     \* movegen.rs test_pawn_drop_mate: P*9b mates
     <<<<<<"k", "l", "7">>, <<"1", "n", "7">>, <<"K", "8">>, <<"9">>, <<"9">>, <<"9">>, <<"9">>, <<"9">>, <<"9">>>>,
       "b", <<"P">>, "1">>,
     \* kg7/9/K8/9/9/9/9/9/9 b P 1
     \* the gold on 8a captures the pawn on 9b
     <<<<<<"k", "g", "7">>, <<"9">>, <<"K", "8">>, <<"9">>, <<"9">>, <<"9">>, <<"9">>, <<"9">>, <<"9">>>>,
       "b", <<"P">>, "1">>,
     \* kg2R4/9/K8/9/9/9/9/9/9 b P 1
     \* the gold on 8a is pinned by the rook on 5a
     <<<<<<"k", "g", "2", "R", "4">>, <<"9">>, <<"K", "8">>, <<"9">>, <<"9">>, <<"9">>, <<"9">>, <<"9">>, <<"9">>>>,
       "b", <<"P">>, "1">>,
     \* 4k4/9/4+rS3/9/4L4/9/9/9/K8 b P 1
     \* the dragon on 5c is pinned by the lance on 5e and captures the pawn on 5b on the file
     <<<<<<"4", "k", "4">>, <<"9">>, <<"4", "+r", "S", "3">>, <<"9">>, <<"4", "L", "4">>, <<"9">>, <<"9">>, <<"9">>, <<"K", "8">>>>,
       "b", <<"P">>, "1">>,
     \* k8/9/K8/9/9/9/9/9/9 b P 1
     \* the king escapes to 8a
     <<<<<<"k", "8">>, <<"9">>, <<"K", "8">>, <<"9">>, <<"9">>, <<"9">>, <<"9">>, <<"9">>, <<"9">>>>,
       "b", <<"P">>, "1">>,
     \* 9/9/9/9/9/9/k8/1N7/KL7 w p 1
     \* test_pawn_drop_mate seen from White: p*9h mates
     <<<<<<"9">>, <<"9">>, <<"9">>, <<"9">>, <<"9">>, <<"9">>, <<"k", "8">>, <<"1", "N", "7">>, <<"K", "L", "7">>>>,
       "w", <<"p">>, "1">>,
     \* 3gk4/9/4G4/2B6/9/9/9/9/K8 b P 1
     \* the pawn on 5b cuts the bishop's line to 4a, where the king escapes
     <<<<<<"3", "g", "k", "4">>, <<"9">>, <<"4", "G", "4">>, <<"2", "B", "6">>, <<"9">>, <<"9">>, <<"9">>, <<"9">>, <<"K", "8">>>>,
       "b", <<"P">>, "1">>
    }

\* the square from which a pawn of colour c attacks sq: sq + 1 for Black, sq - 1 for White
FrontOf(sq, c) == add_unchecked(sq, IF c = BLACK THEN DELTA_S ELSE DELTA_N)

\* pos.is_drop_pawn_mate(us, sq) for the empty square sq in front of the enemy king
IsDropPawnMate ==
    /\ result = "ok"
    /\ out = NoOut
    /\ LET us == side_to_move(base)
           ksq == king_square(base, inverse(us))
       IN /\ Rank_new(ksq) # (IF us = BLACK THEN RankNum - 1 ELSE 0)
          /\ piece_on(base, FrontOf(ksq, us)) = EMPTY
          /\ out' = [op |-> "is_drop_pawn_mate",
                     value |-> is_drop_pawn_mate(P, us, FrontOf(ksq, us))]
    /\ UNCHANGED <<base, states, nodes, moves, snaps, last, mlist, sfen, result>>
    /\ UNCHANGED workers

InitDropPawnMate == InitOn(DropPawnMateSfens \cup CheckSfens)

NextDropPawnMate ==
    \/ Construct
    \/ DoMoveLegal
    \/ IsDropPawnMate

SpecDropPawnMate == InitDropPawnMate /\ [][NextDropPawnMate]_vars

----------------------------------------------------------------------------
(* The slider blockers specification: slider_blockers_and_pinners is asked for
   the sliders of either colour and the square of either king, in the positions
   of test_position_slider_blockers and test_state_info, in positions with a
   lone piece of the sniper's own colour on the line, in the positions of the
   check specification and after every legal move from them *)

SliderSfens ==
    {
     \* 4k4/4l4/4P4/9/4K4/9/9/9/9 b - 1
     \* position.rs test_position_slider_blockers
     <<<<<<"4", "k", "4">>, <<"4", "l", "4">>, <<"4", "P", "4">>, <<"9">>, <<"4", "K", "4">>, <<"9">>, <<"9">>, <<"9">>, <<"9">>>>,
       "b", <<"-">>, "1">>,
     \* 4k4/4l4/4L4/9/4K4/9/9/9/9 b - 1
     \* position.rs test_state_info
     <<<<<<"4", "k", "4">>, <<"4", "l", "4">>, <<"4", "L", "4">>, <<"9">>, <<"4", "K", "4">>, <<"9">>, <<"9">>, <<"9">>, <<"9">>>>,
       "b", <<"-">>, "1">>,
     \* 4k4/4r4/4R4/9/4K4/9/9/9/9 b - 1
     <<<<<<"4", "k", "4">>, <<"4", "r", "4">>, <<"4", "R", "4">>, <<"9">>, <<"4", "K", "4">>, <<"9">>, <<"9">>, <<"9">>, <<"9">>>>,
       "b", <<"-">>, "1">>,
     \* 4k4/4+r4/4+R4/9/4K4/9/9/9/9 b - 1
     <<<<<<"4", "k", "4">>, <<"4", "+r", "4">>, <<"4", "+R", "4">>, <<"9">>, <<"4", "K", "4">>, <<"9">>, <<"9">>, <<"9">>, <<"9">>>>,
       "b", <<"-">>, "1">>,
     \* k8/1b7/2B6/9/4K4/9/9/9/9 b - 1
     <<<<<<"k", "8">>, <<"1", "b", "7">>, <<"2", "B", "6">>, <<"9">>, <<"4", "K", "4">>, <<"9">>, <<"9">>, <<"9">>, <<"9">>>>,
       "b", <<"-">>, "1">>,
     \* k8/1+b7/2+B6/9/4K4/9/9/9/9 b - 1
     <<<<<<"k", "8">>, <<"1", "+b", "7">>, <<"2", "+B", "6">>, <<"9">>, <<"4", "K", "4">>, <<"9">>, <<"9">>, <<"9">>, <<"9">>>>,
       "b", <<"-">>, "1">>,
     \* 4k4/4s4/9/4n4/4R4/9/9/B8/4K4 b - 1
     \* two pieces between the rook on 5e and the king on 5a
     <<<<<<"4", "k", "4">>, <<"4", "s", "4">>, <<"9">>, <<"4", "n", "4">>, <<"4", "R", "4">>, <<"9">>, <<"9">>, <<"B", "8">>, <<"4", "K", "4">>>>,
       "b", <<"-">>, "1">>,
     \* 4k4/9/4S4/9/4R4/9/6p2/9/r2GK2+b1 w - 1
     \* the lone piece between the rook on 5e and the king on 5a is the rook's own silver
     <<<<<<"4", "k", "4">>, <<"9">>, <<"4", "S", "4">>, <<"9">>, <<"4", "R", "4">>, <<"9">>, <<"6", "p", "2">>, <<"9">>, <<"r", "2", "G", "K", "2", "+b", "1">>>>,
       "w", <<"-">>, "1">>
    }

\* pos.slider_blockers_and_pinners(&pos.pieces_c(c), c, sq) for the square of a king
SliderBlockersAndPinners ==
    /\ result = "ok"
    /\ out = NoOut
    /\ \E c \in Colors, k \in Colors :
          LET sq == king_square(base, k)
              r == slider_blockers_and_pinners(base, pieces_c(base, c), c, sq)
          IN out' = [op |-> "slider_blockers_and_pinners",
                     value |-> [color_of_sliders |-> c, sq |-> sq,
                                blockers |-> r[1], pinners |-> r[2]]]
    /\ UNCHANGED <<base, states, nodes, moves, snaps, last, mlist, sfen, result>>
    /\ UNCHANGED workers

InitSliders == InitOn(SliderSfens \cup CheckSfens)

NextSliders ==
    \/ Construct
    \/ DoMoveLegal
    \/ SliderBlockersAndPinners

SpecSliders == InitSliders /\ [][NextSliders]_vars

----------------------------------------------------------------------------
(* The static exchange specification: see_ge is asked with threshold 0 for
   every legal move of the position of test_position_see_ge, of a position
   where a pinning rook moves next to the piece it pins, of a position where
   the pinning bishop stays, and of every position one legal move away *)

SeeSfens ==
    {
     \* k8/5+R3/3b1l3/4s4/6g1+r/4GP3/5LN2/9/K4L3 b - 1
     \* position.rs test_position_see_ge
     <<<<<<"k", "8">>, <<"5", "+R", "3">>, <<"3", "b", "1", "l", "3">>, <<"4", "s", "4">>, <<"6", "g", "1", "+r">>, <<"4", "G", "P", "3">>, <<"5", "L", "N", "2">>, <<"9">>, <<"K", "4", "L", "3">>>>,
       "b", <<"-">>, "1">>,
     \* 4k4/4g4/9/9/4R4/9/9/9/4K4 b - 1
     \* the rook on 5e pins the gold on 5b and moves to 5c
     <<<<<<"4", "k", "4">>, <<"4", "g", "4">>, <<"9">>, <<"9">>, <<"4", "R", "4">>, <<"9">>, <<"9">>, <<"9">>, <<"4", "K", "4">>>>,
       "b", <<"-">>, "1">>,
     \* 4k4/5g3/9/5S3/8B/9/9/9/4K4 b - 1
     \* the bishop on 1e pins the gold on 4b; the silver moves to 4c
     <<<<<<"4", "k", "4">>, <<"5", "g", "3">>, <<"9">>, <<"5", "S", "3">>, <<"8", "B">>, <<"9">>, <<"9">>, <<"9">>, <<"4", "K", "4">>>>,
       "b", <<"-">>, "1">>
    }

\* pos.see_ge(m, Value(0)) for a legal move m
SeeGe ==
    /\ result = "ok"
    /\ out = NoOut
    /\ \E m \in generate(P, LegalType) :
          LET r == see_ge_turns(P, m, 0)
          IN out' = [op |-> "see_ge",
                     value |-> [m |-> m, result |-> r.result, turns |-> r.turns]]
    /\ UNCHANGED <<base, states, nodes, moves, snaps, last, mlist, sfen, result>>
    /\ UNCHANGED workers

InitSee == InitOn(SeeSfens)

NextSee ==
    \/ Construct
    \/ DoMoveLegal
    \/ SeeGe

SpecSee == InitSee /\ [][NextSee]_vars

----------------------------------------------------------------------------
(* The lance specification: the move lists of every generator type in
   positions where lances reach the three farthest ranks, with and without a
   capture, and in every position one legal move away *)

LanceSfens ==
    {
     \* s7k/1p7/2p6/9/LLLL5/9/9/9/8K b - 1
     \* black lances that capture on ranks 1, 2 and 3 and one with an open file
     <<<<<<"s", "7", "k">>, <<"1", "p", "7">>, <<"2", "p", "6">>, <<"9">>, <<"L", "L", "L", "L", "5">>, <<"9">>, <<"9">>, <<"9">>, <<"8", "K">>>>,
       "b", <<"-">>, "1">>,
     \* k8/9/9/9/5llll/9/6P2/7P1/K7S w - 1
     \* the same seen from White
     <<<<<<"k", "8">>, <<"9">>, <<"9">>, <<"9">>, <<"5", "l", "l", "l", "l">>, <<"9">>, <<"6", "P", "2">>, <<"7", "P", "1">>, <<"K", "7", "S">>>>,
       "w", <<"-">>, "1">>,
     \* 8k/1b7/9/9/1L7/9/9/9/8K b - 1
     \* the lance on 8e captures the checking bishop on 8b
     <<<<<<"8", "k">>, <<"1", "b", "7">>, <<"9">>, <<"9">>, <<"1", "L", "7">>, <<"9">>, <<"9">>, <<"9">>, <<"8", "K">>>>,
       "b", <<"-">>, "1">>
    }

InitLance == InitOn(LanceSfens)

NextLance ==
    \/ Construct
    \/ DoMoveLegal
    \/ \E kind \in GeneratorKinds : Generate(kind)

SpecLance == InitLance /\ [][NextLance]_vars

----------------------------------------------------------------------------
(* Properties *)

\* the conserved total of the piece family of the hand piece type pt
FamilyMax(pt) == HandMax(pt)
\* board pieces of both colours, unpromoted and promoted, plus both hands
FamilyTotal(pos, pt) ==
    Cardinality(pieces_p(pos, pt))
    + (IF pt = GOLD THEN 0 ELSE Cardinality(pieces_p(pos, pt + PROMOTION)))
    + num(hand(pos, BLACK), pt) + num(hand(pos, WHITE), pt)

\* C1: do_move(m, gives_check(m)) followed by undo_move(m) restores the whole
\* PositionBase (board, bitboards, golds_bb, hands, king squares, side to move,
\* game_ply) and the state stack, top StateInfo included, to their values
\* before do_move.
C1_DoUndoRestores ==
    last.op = "undo" => (base = last.snap.base /\ states = last.snap.states)

\* an undone capture with promotion
C1_Witness ==
    /\ last.op = "undo"
    /\ last.promotion
    /\ last.capture

\* C2: after construction and after any sequence of do_move, undo_move,
\* do_null_move and undo_null_move the key of the top state (board_key xor
\* hand_key) equals the key rebuilt from the board, the hands and the side to move.
C2_KeyMatchesScratch ==
    result = "ok" =>
        StateInfo_key(st(P)) = Kxor(new_board_key(base), new_hand_key(base))

\* a drop played after a null move
C2_Witness ==
    /\ Len(moves) = 2
    /\ moves[1] = NULL
    /\ moves[2] # NULL
    /\ is_drop(moves[2])

\* C3: the colour bitboards partition Occupied, the 14 type bitboards are
\* pairwise disjoint with union Occupied, and piece_on(s) is Empty iff s is not
\* occupied, otherwise s is set in exactly the colour and type bitboards of
\* piece_on(s).
C3_BoardRepresentationsAgree ==
    result = "ok" =>
        /\ pieces_c(base, BLACK) \cap pieces_c(base, WHITE) = {}
        /\ pieces_c(base, BLACK) \cup pieces_c(base, WHITE) = occupied_bb(base)
        /\ \A pt0, pt1 \in PieceTypes :
              pt0 # pt1 => pieces_p(base, pt0) \cap pieces_p(base, pt1) = {}
        /\ UNION {pieces_p(base, pt) : pt \in PieceTypes} = occupied_bb(base)
        /\ \A s \in Sq :
              /\ piece_on(base, s) = EMPTY <=> s \notin occupied_bb(base)
              /\ piece_on(base, s) # EMPTY =>
                    /\ \A c \in Colors :
                          s \in pieces_c(base, c) <=> c = Color_new(piece_on(base, s))
                    /\ \A pt \in PieceTypes :
                          s \in pieces_p(base, pt) <=> pt = PieceType_new(piece_on(base, s))

\* an undone capture without promotion
C3_Witness ==
    /\ last.op = "undo"
    /\ last.capture
    /\ ~last.promotion

\* C4: after construction from an accepted SFEN and after every do_move and
\* undo_move there is exactly one king of each colour on the board and
\* king_squares[c] is its square.
C4_OneKingPerColor ==
    result = "ok" =>
        \A c \in Colors :
            /\ Cardinality({s \in Sq : piece_on(base, s) = Piece_new(c, KING)}) = 1
            /\ Cardinality(pieces_cp(base, c, KING)) = 1
            /\ piece_on(base, king_square(base, c)) = Piece_new(c, KING)

\* C5 as stated: for every piece family the board pieces plus the hand counts
\* equal the conserved total (18, 4, 4, 4, 4, 2, 2).
C5_FamilyTotalsEqualConserved ==
    result = "ok" => \A pt \in ALL_HAND : FamilyTotal(base, pt) = FamilyMax(pt)

\* C5 amended: for every piece family the board pieces plus the hand counts are
\* at most the conserved total, and do_move / undo_move keep the family total
\* of the constructed position (with moves on the stack, snaps[1] is the
\* position before the first of them).
C5_FamilyTotalsBoundedAndKept ==
    result = "ok" =>
        \A pt \in ALL_HAND :
            /\ FamilyTotal(base, pt) <= FamilyMax(pt)
            /\ FamilyTotal(base, pt) =
                  FamilyTotal(IF snaps # <<>> THEN snaps[1].base
                              ELSE Position_new_from_sfen_args(sfen).base, pt)

\* a capture has moved a piece from the board to the hand of the capturer
C5_Witness ==
    /\ last.op = "do"
    /\ st(P).captured_piece # EMPTY
    /\ exist(hand(base, inverse(side_to_move(base))),
             to_demote_if_possible(PieceType_new(st(P).captured_piece)))

\* C6: every move left in the list by generate::<LegalType> satisfies
\* pseudo_legal in the searching and in the non-searching mode, and legal.
C6_LegalListIsPseudoLegalAndLegal ==
    mlist.kind = "legal" =>
        \A m \in mlist.moves :
            /\ pseudo_legal(P, m, TRUE)
            /\ pseudo_legal(P, m, FALSE)
            /\ legal(P, m)

\* the legal list of a position in which a piece of the side to move is pinned
\* and the unfiltered generator emits a move that legal() rejects
C6_Witness ==
    /\ mlist.kind = "legal"
    /\ blockers_for_king(P, side_to_move(base)) \cap pieces_c(base, side_to_move(base)) # {}
    /\ \E m \in generate_all(P, NonEvasionsType) : ~legal(P, m)
    /\ mlist.moves # {}

\* C7 as stated: every move value m, board move or drop, for which
\* pseudo_legal(m) and legal(m) are both true appears in the list produced by
\* generate::<LegalType>.  pseudo_legal is taken in the searching mode, the
\* mode that follows the generators.  Board moves are enumerated with the
\* moved piece that stands on the from square (every other encoding fails
\* pseudo_legal) and promotions with the from or the to square in the
\* promotion zone (the searching mode asserts it).
C7_PseudoLegalAndLegalIsGenerated ==
    mlist.kind = "legal" =>
        LET us == side_to_move(base)
            unpromotes == {new_unpromote(x[1], x[2], piece_on(base, x[1])) :
                             x \in occupied_bb(base) \X Sq}
            promotes == {new_promote(x[1], x[2], piece_on(base, x[1])) :
                           x \in {y \in occupied_bb(base) \X Sq :
                                     \/ is_opponent_field(Rank_new(y[1]), us)
                                     \/ is_opponent_field(Rank_new(y[2]), us)}}
            drops == {new_drop(Piece_new(x[1], x[2]), x[3]) : x \in Colors \X ALL_HAND \X Sq}
        IN \A m \in unpromotes \cup promotes \cup drops :
              (pseudo_legal(P, m, TRUE) /\ legal(P, m)) => m \in mlist.moves

\* C8: in double check generate_evasions emits only moves of the king of the
\* side to move, no move of another piece and no drop.
C8_DoubleCheckOnlyKingMoves ==
    LET us == side_to_move(base)
        ksq == king_square(base, us)
    IN (/\ mlist.kind = "evasions"
        /\ Cardinality(attackers_to(base, inverse(us), ksq, occupied_bb(base))) >= 2)
       => \A m \in mlist.moves :
             /\ ~is_drop(m)
             /\ Move_from(m) = ksq
             /\ piece_moved_before_move(m) = Piece_new(us, KING)

\* the evasion list of a double check in which the checked side has a piece in
\* hand and a piece that attacks a checker
C8_Witness ==
    LET us == side_to_move(base)
        ksq == king_square(base, us)
        att == attackers_to(base, inverse(us), ksq, occupied_bb(base))
    IN /\ mlist.kind = "evasions"
       /\ Cardinality(att) = 2
       /\ \E pt \in ALL_HAND : exist(hand(base, us), pt)
       /\ \E s \in att : attackers_to_except_king(base, us, s, occupied_bb(base)) # {}
       /\ mlist.moves # {}

\* C9: no generator emits a pawn drop onto a file that already contains an
\* unpromoted pawn of the dropping side.
C9_NoTwoPawns ==
    mlist.kind # "none" =>
        \A m \in mlist.moves :
            (is_drop(m) /\ piece_type_dropped(m) = PAWN) =>
                pieces_cp(base, side_to_move(base), PAWN) \cap file_mask(File_new(Move_to(m))) = {}

\* a generated list with pawn drops in a position where an empty square that is
\* not on the last rank lies on a file with an own pawn
C9_Witness ==
    LET us == side_to_move(base)
    IN /\ mlist.kind \in {"quiets", "non_evasions", "evasions", "legal"}
       /\ exist(hand(base, us), PAWN)
       /\ \E m \in mlist.moves : is_drop(m) /\ piece_type_dropped(m) = PAWN
       /\ \E s \in empty_bb(base) \ rank_mask(rank_as_black(us, 1)) :
             pieces_cp(base, us, PAWN) \cap file_mask(File_new(s)) # {}

\* C10: no generator emits a pawn drop that checkmates: an emitted pawn drop
\* onto the square in front of the enemy king leaves the enemy a capture of the
\* pawn or a king move after which the enemy king is not attacked.
C10_NoDropPawnMate ==
    mlist.kind # "none" =>
        \A m \in mlist.moves :
            LET us == side_to_move(base)
                them == inverse(us)
                to == Move_to(m)
                q == do_move(P, m, TRUE)
                answers ==
                    {mv \in UNION {{new_unpromote(x[1], x[2], piece_on(q.base, x[1])),
                                    new_promote(x[1], x[2], piece_on(q.base, x[1]))} :
                                   x \in pieces_c(q.base, them) \X Sq} :
                        /\ Move_to(mv) \in attack(PieceType_new(piece_on(q.base, Move_from(mv))), them,
                                                  Move_from(mv), occupied_bb(q.base))
                        /\ Move_to(mv) \notin pieces_c(q.base, them)
                        /\ is_promotion(mv) => is_promotable(piece_on(q.base, Move_from(mv)))
                        /\ Move_to(mv) = to \/ Move_from(mv) = king_square(q.base, them)}
                safe(mv) ==
                    LET r == do_move(q, mv, FALSE)
                    IN attackers_to(r.base, us, king_square(r.base, them), occupied_bb(r.base)) = {}
            IN (/\ is_drop(m)
                /\ piece_type_dropped(m) = PAWN
                /\ pawn_attack(us, to) = {king_square(base, them)})
               => \E mv \in answers : safe(mv)

\* a generated list with drops in a position where the pawn drop in front of
\* the enemy king is possible by hand, square and file, and would be mate
C10_Witness ==
    LET us == side_to_move(base)
        them == inverse(us)
        front == pawn_attack(them, king_square(base, them))
    IN /\ mlist.kind \in {"quiets", "non_evasions", "legal"}
       /\ exist(hand(base, us), PAWN)
       /\ front # {}
       /\ front \subseteq empty_bb(base)
       /\ \A s \in front : pieces_cp(base, us, PAWN) \cap file_mask(File_new(s)) = {}
       /\ \A s \in front : is_drop_pawn_mate(P, us, s)
       /\ \E m \in mlist.moves : is_drop(m) /\ piece_type_dropped(m) = PAWN

\* C11: no generator (the per-piece generators, the drop generator, the recapture
\* generator on any target square) emits an unpromoted pawn or lance move or a
\* pawn or lance drop onto the mover's last rank, or an unpromoted knight move or
\* a knight drop onto the mover's last two ranks.
C11_NoMoveWithoutFutureMove ==
    LET us == side_to_move(base)
        Stuck(pt, to) ==
            \/ pt \in {PAWN, LANCE} /\ Rank_new(to) = rank_as_black(us, 1)
            \/ pt = KNIGHT /\ Rank_new(to) \in {rank_as_black(us, 1), rank_as_black(us, 2)}
        Fine(m) ==
            IF is_drop(m) THEN ~Stuck(piece_type_dropped(m), Move_to(m))
            ELSE is_promotion(m) \/ ~Stuck(PieceType_new(piece_moved_before_move(m)), Move_to(m))
    IN /\ mlist.kind # "none" => \A m \in mlist.moves : Fine(m)
       /\ result = "ok" => \A to \in Sq : \A m \in generate_recaptures(P, to) : Fine(m)

\* a generated list that holds the promoting move of a knight onto the mover's
\* last two ranks, where the unpromoted move is geometrically possible
C11_Witness ==
    LET us == side_to_move(base)
    IN /\ mlist.kind # "none"
       /\ \E m \in mlist.moves :
             /\ ~is_drop(m) /\ is_promotion(m)
             /\ PieceType_new(piece_moved_before_move(m)) = KNIGHT
             /\ Rank_new(Move_to(m)) \in {rank_as_black(us, 1), rank_as_black(us, 2)}

\* the number of moves played since the last null move or the construction
RepPliesFromNull ==
    LET nulls == {k \in 1..Len(moves) : moves[k] = NULL}
    IN IF nulls = {} THEN Len(moves)
       ELSE Len(moves) - (CHOOSE k \in nulls : \A j \in nulls : j <= k)
\* the even distances of the backward scan
RepWindow ==
    {i \in 4..(IF RepPliesFromNull < 16 THEN RepPliesFromNull ELSE 16) : i % 2 = 0}
\* the position i plies back
RepBack(i) == snaps[Len(snaps) - i + 1].base
\* the k-th move on the stack gave check: the king of the side to move after it is attacked
RepGaveCheck(k) ==
    LET mover == side_to_move(snaps[k].base)
        q == IF k = Len(moves) THEN base ELSE snaps[k + 1].base
    IN attackers_to(q, mover, king_square(q, inverse(mover)), occupied_bb(q)) # {}
\* colour c gave check with every one of its moves among the last i moves
RepAllChecks(c, i) ==
    \A k \in (Len(moves) - i + 1)..Len(moves) :
        side_to_move(snaps[k].base) = c => RepGaveCheck(k)
\* the position i plies back has the same board, hands and side to move
RepFullSame(i) ==
    /\ RepBack(i).board = base.board
    /\ RepBack(i).hands = base.hands
    /\ RepBack(i).side_to_move = base.side_to_move
\* the position i plies back has the same board and other hands, and the hand of
\* the side to move now dominates its hand then (now = TRUE) or the other way round
RepBoardSame(i, now) ==
    LET us == side_to_move(base)
        h == base.hands[us]
        g == RepBack(i).hands[us]
    IN /\ RepBack(i).board = base.board
       /\ RepBack(i).hands # base.hands
       /\ IF now THEN \A pt \in ALL_HAND : h[pt] >= g[pt]
          ELSE \A pt \in ALL_HAND : g[pt] >= h[pt]
\* the scan returns at distance i
RepClassifies(i) == RepFullSame(i) \/ RepBoardSame(i, TRUE) \/ RepBoardSame(i, FALSE)
\* i is the first distance at which the scan returns
RepFirst(i) == i \in RepWindow /\ RepClassifies(i) /\ \A j \in RepWindow : j < i => ~RepClassifies(j)

\* C12: when the first distance i at which the scan of is_repetition returns shows
\* the same board, hands and side to move, the value is Lose if the side to move
\* gave check with every one of its moves of the last i plies, else Win if the
\* opponent did, else Draw.
C12_FullRepetitionIsLoseWinDraw ==
    out.op = "is_repetition" =>
        \A i \in RepWindow :
            (RepFirst(i) /\ RepFullSame(i)) =>
                out.value = IF RepAllChecks(side_to_move(base), i) THEN "Lose"
                            ELSE IF RepAllChecks(inverse(side_to_move(base)), i) THEN "Win"
                            ELSE "Draw"

\* is_repetition has answered a repetition in which the opponent gave check with
\* everyone of its moves and the side to move did not
C12_Witness ==
    /\ out.op = "is_repetition"
    /\ \E i \in RepWindow :
          /\ RepFirst(i) /\ RepFullSame(i)
          /\ RepAllChecks(inverse(side_to_move(base)), i)
          /\ ~RepAllChecks(side_to_move(base), i)

\* C13: when the first distance at which the scan of is_repetition returns shows
\* the same board with other hands, the value is Superior if the hand of the side
\* to move has at least as many pieces of every type as it had then, Inferior if
\* it had at least as many of every type then; distances with the same board and
\* incomparable hands are passed over; the value is Not when no distance of the
\* window returns, in particular with fewer than 4 plies since the last null move.
C13_BoardRepetitionIsSuperiorInferior ==
    out.op = "is_repetition" =>
        /\ \A i \in RepWindow :
              (RepFirst(i) /\ ~RepFullSame(i)) =>
                  out.value = IF RepBoardSame(i, TRUE) THEN "Superior" ELSE "Inferior"
        /\ (\A i \in RepWindow : ~RepClassifies(i)) => out.value = "Not"

\* is_repetition has answered for a position whose board was the same four plies
\* ago when the side to move had fewer pieces in hand
C13_Witness ==
    /\ out.op = "is_repetition"
    /\ \E i \in RepWindow : RepFirst(i) /\ ~RepFullSame(i) /\ RepBoardSame(i, TRUE)

\* one king of each colour on the board, as every valid position has
HcpValid == \A c \in Colors : Cardinality(pieces_cp(base, c, KING)) = 1

\* C14: for every valid position, with any number of board and hand pieces within
\* the family maxima and hands of either colour, decoding the Huffman coded
\* position of pos succeeds and gives the same board, the same hand counts of
\* Black and of White, the same side to move and the same ply.
C14_HcpRoundTrip ==
    (out.op = "hcp" /\ HcpValid) =>
        /\ out.value.err = "none"
        /\ out.value.base.board = base.board
        /\ \A c \in Colors : \A pt \in ALL_HAND :
              num(hand(out.value.base, c), pt) = num(hand(base, c), pt)
        /\ side_to_move(out.value.base) = side_to_move(base)
        /\ out.value.base.game_ply = base.game_ply

\* C15: for every SFEN string s accepted by Position::new_from_sfen, to_sfen of
\* the constructed position returns exactly s.
C15_ToSfenReturnsInput ==
    out.op = "to_sfen" => out.value = sfen

\* the position is legal (one king each, the side that has moved is not in
\* check) and the side to move is not in check
MateCallable ==
    /\ \A c \in Colors : Cardinality(pieces_cp(base, c, KING)) = 1
    /\ attackers_to(base, side_to_move(base), king_square(base, inverse(side_to_move(base))),
                    occupied_bb(base)) = {}
    /\ ~in_check(P)

\* the move m of the side to move is legal and mates: it is accepted by
\* pseudo_legal and legal, and after it the opponent is in check and has no
\* legal move
MateMoves(m) ==
    LET After(q) == in_check(q) /\ generate(q, LegalType) = {}
    IN /\ pseudo_legal(P, m, FALSE)
       /\ legal(P, m)
       /\ After(do_move(P, m, gives_check(P, m)))

\* C16: in every legal position where the side to move is not in check,
\* mate_move_in_1ply returns Some(m) only if m is a legal move of the side to
\* move after which the opponent's king is in check and the opponent has no
\* legal move; with no mating move at all it returns None.
C16_MateMoveMates ==
    (out.op = "mate_move_in_1ply" /\ MateCallable /\ out.value.some) => MateMoves(out.value.m)

\* a mate by a promoting board move has been returned
C16_Witness ==
    /\ out.op = "mate_move_in_1ply"
    /\ MateCallable
    /\ out.value.some
    /\ is_promotion(out.value.m)
    /\ MateMoves(out.value.m)

\* the pieces of the side to move other than the king standing in the
\* opponent's three ranks, read off the board
EnteringPieces ==
    {sq \in Sq : /\ piece_on(base, sq) # EMPTY
                 /\ Color_new(piece_on(base, sq)) = side_to_move(base)
                 /\ PieceType_new(piece_on(base, sq)) # KING
                 /\ is_opponent_field(Rank_new(sq), side_to_move(base))}
\* 5 points for a bishop, rook, horse or dragon, 1 for any other piece
EnteringPoint(pt) == IF pt \in {BISHOP, ROOK, HORSE, DRAGON} THEN 5 ELSE 1
\* the points of the in-zone pieces and of all the pieces in hand
EnteringPoints ==
    LET RECURSIVE board(_)
        board(s) == IF s = {} THEN 0
                    ELSE LET sq == CHOOSE x \in s : TRUE
                         IN EnteringPoint(PieceType_new(piece_on(base, sq))) + board(s \ {sq})
        RECURSIVE inhand(_)
        inhand(s) == IF s = {} THEN 0
                     ELSE LET pt == CHOOSE x \in s : TRUE
                          IN EnteringPoint(pt) * num(hand(base, side_to_move(base)), pt)
                             + inhand(s \ {pt})
    IN board(EnteringPieces) + inhand(ALL_HAND)

\* C17: is_entering_king_win is true if and only if the king of the side to
\* move is not in check and stands in the opponent's three ranks, at least ten
\* of its other pieces stand there, and the points (1 per small piece, 5 per
\* bishop, rook, horse or dragon, over those pieces and the whole hand) are at
\* least 28 for Black and 27 for White.
C17_EnteringKingWinIff ==
    out.op = "is_entering_king_win" =>
        (out.value <=>
            /\ attackers_to(base, inverse(side_to_move(base)),
                            king_square(base, side_to_move(base)), occupied_bb(base)) = {}
            /\ is_opponent_field(Rank_new(king_square(base, side_to_move(base))),
                                 side_to_move(base))
            /\ Cardinality(EnteringPieces) >= 10
            /\ EnteringPoints >= (IF side_to_move(base) = BLACK THEN 28 ELSE 27))

\* White declares with exactly 27 points
C17_Witness ==
    /\ out.op = "is_entering_king_win"
    /\ out.value
    /\ side_to_move(base) = WHITE
    /\ EnteringPoints = 27

\* C18: for every position and every legal move m of the side to move
\* (unpromoted board move, promoting board move or drop),
\* new_from_csa_str(m.to_csa_string(pos), pos) returns Some(m); and for every
\* six-character string that denotes no pseudo-legal and legal move it returns
\* None.
C18_CsaRoundTrip ==
    /\ out.op = "csa_round_trip" => out.value.back = Some(out.value.m)
    /\ (out.op = "new_from_csa_str" /\ out.value.back.some) =>
          /\ pseudo_legal(P, out.value.back.m, FALSE)
          /\ legal(P, out.value.back.m)
          /\ to_csa_string(out.value.back.m, P) = out.value.s

\* every thread has been started and has finished
AllFinished == DOMAIN workers = Workers /\ \A t \in Workers : workers[t].done

\* the number of do_move calls made on all the Positions of the threads
RECURSIVE DoMoveCalls(_)
DoMoveCalls(ts) ==
    IF ts = {} THEN 0
    ELSE LET t == CHOOSE u \in ts : TRUE IN workers[t].calls + DoMoveCalls(ts \ {t})

\* C19: the values a thread gets from nodes_searched never decrease from one
\* call to its next, the counter itself never decreases, and once every thread
\* has finished the counter is the total number of do_move calls of the threads:
\* no increment is lost, and undo_move, do_null_move and undo_null_move add nothing
C19_NodesCounted ==
    /\ [][/\ nodes' >= nodes
          /\ \A t \in DOMAIN workers :
                /\ workers'[t].seen >= workers[t].seen
                /\ workers'[t].seen <= nodes']_vars
    /\ [](AllFinished => nodes = DoMoveCalls(Workers))

\* both threads have finished after do_move calls of each, one took a move back,
\* one has a null move on its stack, and one was returned a stale value
C19_Witness ==
    /\ AllFinished
    /\ \A t \in Workers : workers[t].calls >= 1
    /\ \E t \in Workers : Len(workers[t].moves) < workers[t].calls
    /\ \E t \in Workers : \E i \in 1..Len(workers[t].moves) : workers[t].moves[i] = NULL
    /\ \E t \in Workers : workers[t].seen > 0 /\ workers[t].seen < nodes

\* C20: out of check, the moves of generate_all::<NonEvasionsType> are those of
\* generate_all::<CaptureOrPawnPromotionsType> together with those of
\* generate_all::<QuietsWithoutPawnPromotionsType>, and no move is in both
C20_NonEvasionsSplit ==
    out.op = "generate_all" =>
        /\ out.value.non_evasions = out.value.captures \cup out.value.quiets
        /\ out.value.captures \cap out.value.quiets = {}

\* a position where the captures hold a pawn promotion to an empty square and a
\* lance capture on rank 3 without promotion, and the quiets hold a drop and a
\* lance promotion on an empty square of the opponent's field
C20_Witness ==
    /\ out.op = "generate_all"
    /\ \E m \in out.value.captures :
          /\ piece_moved_before_move(m) % 16 = PAWN /\ is_promotion(m)
          /\ piece_on(base, Move_to(m)) = EMPTY
    /\ \E m \in out.value.captures :
          /\ ~is_drop(m) /\ piece_moved_before_move(m) % 16 = LANCE /\ ~is_promotion(m)
          /\ is_opponent_field(Rank_new(Move_to(m)), side_to_move(base))
    /\ \E m \in out.value.quiets : is_drop(m)
    /\ \E m \in out.value.quiets :
          /\ ~is_drop(m) /\ piece_moved_before_move(m) % 16 = LANCE /\ is_promotion(m)

\* the number of files a rank descriptor describes: a number counts for as many
\* empty squares, any other token for one square
RECURSIVE RankFiles(_)
RankFiles(toks) ==
    IF toks = <<>> THEN 0
    ELSE (IF Head(toks) \in DOMAIN ParseIntTbl THEN ParseIntTbl[Head(toks)] ELSE 1)
         + RankFiles(Tail(toks))

\* C21: construction from an SFEN whose board has a rank descriptor that does
\* not describe exactly nine files, more or fewer, returns an error.
C21_NineFilesOrError ==
    result = "ok" => \A r \in DOMAIN sfen[1] : RankFiles(sfen[1][r]) = FileNum

\* the pieces of colour c that attack the square sq, read from the board array
\* alone: every square holding a piece of c whose attack under the occupancy
\* of the board contains sq
ScratchAttackers(pos, c, sq) ==
    LET occ == {s \in Sq : pos.board[s] # EMPTY}
    IN {s \in occ : /\ Color_new(pos.board[s]) = c
                    /\ sq \in attack(PieceType_new(pos.board[s]), c, s, occ)}

\* the square of the king of colour c, read from the board array
ScratchKing(pos, c) == CHOOSE s \in Sq : pos.board[s] = Piece_new(c, KING)

\* do_move has just played the move on top of the stack in a legal position:
\* one king each, and the side that was not to move was not in check
PlayedInLegalPosition ==
    /\ result = "ok"
    /\ last.op = "do"
    /\ moves # <<>>
    /\ LET before == snaps[Len(snaps)].base
       IN /\ \A c \in Colors : Cardinality({s \in Sq : before.board[s] = Piece_new(c, KING)}) = 1
          /\ ScratchAttackers(before, side_to_move(before),
                              ScratchKing(before, inverse(side_to_move(before)))) = {}

\* C22: after do_move(m, gives_check(m)) of a legal move the checkers of the new
\* top state are exactly the mover's pieces that attack the king of the new side
\* to move on the new board, and gives_check(m) was true iff there is one.
C22_CheckersFromScratch ==
    PlayedInLegalPosition =>
        LET mover == inverse(side_to_move(base))
            scratch == ScratchAttackers(base, mover, ScratchKing(base, side_to_move(base)))
        IN /\ checkers(P) = scratch
           /\ gives_check(snaps[Len(snaps)], moves[Len(moves)]) <=> scratch # {}

\* a board move has discovered a check: the piece that moved is not the checker
C22_Witness ==
    /\ PlayedInLegalPosition
    /\ ~is_drop(moves[Len(moves)])
    /\ checkers(P) # {}
    /\ Move_to(moves[Len(moves)]) \notin checkers(P)

\* the position is legal: one king each on the board array and the side that
\* is not to move is not in check
LegalPosition ==
    /\ result = "ok"
    /\ \A c \in Colors : Cardinality({s \in Sq : base.board[s] = Piece_new(c, KING)}) = 1
    /\ ScratchAttackers(base, side_to_move(base),
                        ScratchKing(base, inverse(side_to_move(base)))) = {}

\* the board array after the board move m: the moved piece, promoted if m
\* promotes, stands on the target square and the origin is empty
ScratchPlayed(pos, m) ==
    [pos EXCEPT !.board = [@ EXCEPT ![Move_from(m)] = EMPTY,
                                    ![Move_to(m)] = IF is_promotion(m)
                                                    THEN to_promote(pos.board[Move_from(m)])
                                                    ELSE pos.board[Move_from(m)]]]

\* after m the king of the mover is not attacked by any piece of the opponent
KingSafeAfter(pos, m) ==
    LET us == side_to_move(pos)
    IN ScratchAttackers(ScratchPlayed(pos, m), inverse(us),
                        ScratchKing(ScratchPlayed(pos, m), us)) = {}

\* C23: in a legal position, for every board move m that pseudo_legal accepts,
\* legal(m) is true iff the mover's king is not attacked on the board after m.
C23_LegalIffKingSafe ==
    (out.op = "legal" /\ LegalPosition) =>
        \A x \in out.value : x[2] <=> KingSafeAfter(base, x[1])

\* legal has refused the move of a pinned piece off the line of the pin and a
\* king move onto an attacked square, and has let the pinned piece move along the line
C23_Witness ==
    /\ out.op = "legal"
    /\ LegalPosition
    /\ \E x \in out.value :
          /\ ~x[2]
          /\ PieceType_new(piece_on(base, Move_from(x[1]))) # KING
    /\ \E x \in out.value :
          /\ x[2]
          /\ Move_from(x[1]) \in blockers_for_king(P, side_to_move(base))
          /\ PieceType_new(piece_on(base, Move_from(x[1]))) # KING
    /\ \E x \in out.value :
          /\ ~x[2]
          /\ PieceType_new(piece_on(base, Move_from(x[1]))) = KING

\* the board array after a pawn of colour c is dropped on sq, the other side to move
AfterPawnDrop(pos, c, sq) ==
    [pos EXCEPT !.board = [@ EXCEPT ![sq] = Piece_new(c, PAWN)],
                !.side_to_move = inverse(c)]

\* the side to move of pos has a legal board move: some piece of it moves, as
\* the attack tables let it, to a square not held by an own piece, and its king
\* is not attacked afterwards
HasLegalBoardMove(pos) ==
    LET c == side_to_move(pos)
        occ == {s \in Sq : pos.board[s] # EMPTY}
    IN \E from \in {s \in occ : Color_new(pos.board[s]) = c} :
          \E to \in attack(PieceType_new(pos.board[from]), c, from, occ) :
             /\ pos.board[to] = EMPTY \/ Color_new(pos.board[to]) # c
             /\ KingSafeAfter(pos, new_unpromote(from, to, pos.board[from]))

\* C24: in a legal position where the square sq in front of the enemy king is
\* empty, is_drop_pawn_mate(us, sq) is true iff the defending side has no legal
\* move after a pawn of us is dropped on sq.
C24_DropPawnMateIffNoDefence ==
    (out.op = "is_drop_pawn_mate" /\ LegalPosition) =>
        (out.value <=>
            ~HasLegalBoardMove(AfterPawnDrop(base, side_to_move(base),
                FrontOf(ScratchKing(base, inverse(side_to_move(base))), side_to_move(base)))))

\* is_drop_pawn_mate has returned true although a piece of the defender attacks
\* the square of the pawn: that piece is pinned
C24_Witness ==
    /\ out.op = "is_drop_pawn_mate"
    /\ LegalPosition
    /\ out.value
    /\ attackers_to_except_king(base, inverse(side_to_move(base)),
                                FrontOf(king_square(base, inverse(side_to_move(base))),
                                        side_to_move(base)),
                                occupied_bb(base)) # {}

\* the squares strictly between a and b, from their files and ranks
ScratchBetween(a, b) ==
    {x \in Sq \ {a, b} :
        /\ (File_new(x) - File_new(a)) * (Rank_new(b) - Rank_new(a))
             = (Rank_new(x) - Rank_new(a)) * (File_new(b) - File_new(a))
        /\ (File_new(x) - File_new(a)) * (File_new(x) - File_new(b)) <= 0
        /\ (Rank_new(x) - Rank_new(a)) * (Rank_new(x) - Rank_new(b)) <= 0}

\* the board array has on s a slider of colour c aimed at sq: a lance facing sq on
\* its file, a bishop or horse on a diagonal of sq, a rook or dragon on its file or rank
ScratchSniper(pos, c, s, sq) ==
    LET pc == pos.board[s]
        pt == pc % 16
        df == File_new(s) - File_new(sq)
        dr == Rank_new(s) - Rank_new(sq)
    IN /\ pc # EMPTY
       /\ pc \div 16 = c
       /\ s # sq
       /\ \/ pt = LANCE /\ df = 0 /\ (IF c = BLACK THEN dr > 0 ELSE dr < 0)
          \/ pt \in {BISHOP, HORSE} /\ df * df = dr * dr
          \/ pt \in {ROOK, DRAGON} /\ (df = 0 \/ dr = 0)

\* the occupied squares strictly between the sniper on s and sq
ScratchPiecesBetween(pos, s, sq) == {x \in ScratchBetween(s, sq) : pos.board[x] # EMPTY}

\* C25 as stated: for every sniper in sliders, if exactly one piece of any colour
\* lies strictly between the sniper and sq, that piece is in the returned blockers
\* and the sniper is in the returned pinners; if zero or more than one piece lies
\* between, neither is added
C25_OnePieceBetweenPins ==
    out.op = "slider_blockers_and_pinners" =>
        LET v == out.value
            lone == {s \in Sq : /\ ScratchSniper(base, v.color_of_sliders, s, v.sq)
                                /\ Cardinality(ScratchPiecesBetween(base, s, v.sq)) = 1}
        IN /\ v.blockers = UNION {ScratchPiecesBetween(base, s, v.sq) : s \in lone}
           /\ v.pinners = lone

\* C25 amended: the piece is a blocker whenever it is the only piece between a
\* sniper and sq; the sniper is a pinner exactly when, in addition, that piece has
\* the colour of the piece on sq; with zero or more than one piece between,
\* neither is added
C25_OnePieceBetweenBlocksAndOwnPiecePins ==
    out.op = "slider_blockers_and_pinners" =>
        LET v == out.value
            lone == {s \in Sq : /\ ScratchSniper(base, v.color_of_sliders, s, v.sq)
                                /\ Cardinality(ScratchPiecesBetween(base, s, v.sq)) = 1}
        IN /\ v.blockers = UNION {ScratchPiecesBetween(base, s, v.sq) : s \in lone}
           /\ v.pinners = {s \in lone : \A x \in ScratchPiecesBetween(base, s, v.sq) :
                                            base.board[x] \div 16 = base.board[v.sq] \div 16}

\* a sniper with exactly one piece between it and sq, where that piece is a
\* returned blocker and the sniper is not a returned pinner
C25_Witness ==
    /\ out.op = "slider_blockers_and_pinners"
    /\ out.value.blockers # {}
    /\ \E s \in Sq :
          /\ ScratchSniper(base, out.value.color_of_sliders, s, out.value.sq)
          /\ Cardinality(ScratchPiecesBetween(base, s, out.value.sq)) = 1
          /\ ScratchPiecesBetween(base, s, out.value.sq) \subseteq out.value.blockers
          /\ s \notin out.value.pinners

\* C26: on each turn of the exchange loop of see_ge the blockers for the
\* capturing side's own king are excluded from that side's attackers exactly as
\* long as every pinner for that same king (pinners_for_king of the capturing
\* side) is still in the simulated occupancy; once one of them has been removed,
\* that side's blockers may capture
C26_BlockersWaitForTheirPinners ==
    out.op = "see_ge" =>
        \A i \in DOMAIN out.value.turns :
            LET t == out.value.turns[i]
                c == t.side_to_move
                all == {s \in t.attackers : base.board[s] # EMPTY /\ base.board[s] \div 16 = c}
            IN t.side_to_move_attackers =
                   IF pinners_for_king(P, c) \subseteq t.occupied
                   THEN all \ blockers_for_king(P, c)
                   ELSE all

\* the rank of sq counted from the edge farthest from c's own side: 1 is the last rank
RankFromFarEdge(sq, c) == IF c = BLACK THEN Rank_new(sq) + 1 ELSE RankNum - Rank_new(sq)

\* m moves a lance of the side to move from the board onto rank k from the far edge
LanceMoveOnto(m, k) ==
    /\ ~is_drop(m)
    /\ base.board[Move_from(m)] = LANCE + 16 * base.side_to_move
    /\ RankFromFarEdge(Move_to(m), base.side_to_move) = k

\* the move list was generated by a generator that allows captures
CapturesAllowed == mlist.kind \in {"captures", "evasions", "non_evasions", "legal"}

\* the move m without its promotion
Unpromoted(m) == new_unpromote(Move_from(m), Move_to(m), base.board[Move_from(m)])

\* C27 as stated: in generators that allow captures, the unpromoted lance move
\* onto the mover's second-to-last rank is generated if and only if it captures,
\* alongside the promoting move; the unpromoted lance move onto the last rank is
\* never generated
C27_UnpromotedOnRank2IffCapture ==
    CapturesAllowed =>
        \A m \in mlist.moves :
            /\ LanceMoveOnto(m, 2) /\ is_promotion(m) =>
                   (Unpromoted(m) \in mlist.moves <=> base.board[Move_to(m)] # EMPTY)
            /\ LanceMoveOnto(m, 1) => is_promotion(m)

\* C27 amended: in generators that allow captures, the unpromoted lance move
\* onto the mover's third-to-last rank is generated if and only if it captures,
\* alongside the promoting move; the unpromoted lance move onto the last two
\* ranks is never generated
C27_UnpromotedOnRank3IffCapture ==
    CapturesAllowed =>
        \A m \in mlist.moves :
            /\ LanceMoveOnto(m, 3) /\ is_promotion(m) =>
                   (Unpromoted(m) \in mlist.moves <=> base.board[Move_to(m)] # EMPTY)
            /\ LanceMoveOnto(m, 3) /\ ~is_promotion(m) =>
                   m + PROMOTE_FLAG \in mlist.moves
            /\ LanceMoveOnto(m, 2) \/ LanceMoveOnto(m, 1) => is_promotion(m)

\* a list with a lance capture on rank 3 generated with and without promotion, a
\* lance capture on rank 2 generated with promotion only, and a lance move to an
\* empty square of rank 3 generated with promotion only
C27_Witness ==
    /\ CapturesAllowed
    /\ \E m \in mlist.moves :
          /\ LanceMoveOnto(m, 3) /\ is_promotion(m) /\ base.board[Move_to(m)] # EMPTY
          /\ Unpromoted(m) \in mlist.moves
    /\ \E m \in mlist.moves :
          /\ LanceMoveOnto(m, 2) /\ is_promotion(m) /\ base.board[Move_to(m)] # EMPTY
          /\ Unpromoted(m) \notin mlist.moves
    /\ \E m \in mlist.moves :
          /\ LanceMoveOnto(m, 3) /\ is_promotion(m) /\ base.board[Move_to(m)] = EMPTY
          /\ Unpromoted(m) \notin mlist.moves

\* C28: do_null_move, called out of check, changes only the side to move: board,
\* bitboards, hands, king squares and game_ply are unchanged, material and
\* hand_key of the new top state equal those of the previous one, board_key
\* differs from the previous one in its lowest bit only, plies_from_null and both
\* continuous_checks are 0 in the new top state; undo_null_move restores the
\* previous side to move and the previous StateInfo as top.
C28_NullMoveFlipsSideOnly ==
    /\ last.op = "do_null" =>
          LET prev == snaps[Len(snaps)]
              old == prev.states[Len(prev.states)]
              new == states[Len(states)]
          IN /\ base.side_to_move = 1 - prev.base.side_to_move
             /\ \A f \in DOMAIN base \ {"side_to_move"} : base[f] = prev.base[f]
             /\ Len(states) = Len(prev.states) + 1
             /\ new.material = old.material
             /\ new.hand_key = old.hand_key
             /\ (new.board_key \ old.board_key) \cup (old.board_key \ new.board_key) = {0}
             /\ new.plies_from_null = 0
             /\ \A c \in {0, 1} : new.continuous_checks[c] = 0
    /\ last.op = "undo_null" =>
          /\ base.side_to_move = last.snap.base.side_to_move
          /\ states[Len(states)] = last.snap.states[Len(last.snap.states)]
          /\ Len(states) = Len(last.snap.states)

\* a null move played after a check and its evasion: the previous top state
\* counts plies from the last null move and continuous checks of the side that
\* now passes
C28_Witness ==
    /\ last.op = "do_null"
    /\ snaps[Len(snaps)].states[Len(snaps[Len(snaps)].states)].plies_from_null > 0
    /\ \E c \in {0, 1} :
          snaps[Len(snaps)].states[Len(snaps[Len(snaps)].states)].continuous_checks[c] > 0

\* C29: decoding the hand section of a Huffman coded position attributes each
\* hand code to the colour it was encoded for: every code written for a piece in
\* White's hand increments White's count of that piece type and every code
\* written for Black's hand increments Black's (the bits after the last code
\* written are read as further codes, so Black's counts are compared with >=).
C29_HandCodesKeepTheirColor ==
    (out.op = "hcp" /\ HcpValid /\ out.value.err = "none") =>
        \A pt \in ALL_HAND :
            /\ out.value.base.hands[WHITE][pt] = base.hands[WHITE][pt]
            /\ out.value.base.hands[BLACK][pt] >= base.hands[BLACK][pt]

\* the piece family of a piece on the board: its piece type without promotion
ScratchFamily(pc) == IF pc % 16 > KING THEN (pc % 16) - PROMOTION ELSE pc % 16

\* the pieces of family pt on the board array, of both colours
ScratchBoardFamily(pos, pt) ==
    Cardinality({s \in Sq : pos.board[s] # EMPTY /\ ScratchFamily(pos.board[s]) = pt})

\* C30: every do_move and undo_move keeps, for each piece family, the total of
\* the family's board pieces of both colours (promoted and unpromoted) plus both
\* hands: a capture takes the captured piece from the board and adds exactly one
\* piece of its demoted type to the capturer's hand, a drop takes exactly one
\* piece of the dropped type from the dropper's hand and puts it on the board,
\* and undo_move reverses each exactly.
C30_MovesConserveFamilies ==
    /\ last.op = "do" =>
          LET prev == snaps[Len(snaps)].base
              m == moves[Len(moves)]
              us == prev.side_to_move
              to == m % 128
              dropped == IF last.drop THEN (m \div FROM_FACTOR) % 16 ELSE 0
              captured == IF last.drop THEN EMPTY ELSE prev.board[to]
              gained(c, pt) == IF c = us /\ captured # EMPTY /\ ScratchFamily(captured) = pt
                               THEN 1 ELSE 0
              spent(c, pt) == IF c = us /\ dropped = pt THEN 1 ELSE 0
          IN /\ \A pt \in ALL_HAND :
                  /\ ScratchBoardFamily(base, pt) + base.hands[BLACK][pt] + base.hands[WHITE][pt]
                       = ScratchBoardFamily(prev, pt) + prev.hands[BLACK][pt] + prev.hands[WHITE][pt]
                  /\ \A c \in Colors :
                        base.hands[c][pt] = prev.hands[c][pt] + gained(c, pt) - spent(c, pt)
             /\ last.drop => prev.board[to] = EMPTY /\ base.board[to] = dropped + 16 * us
             /\ captured # EMPTY => base.board[to] # EMPTY /\ base.board[to] \div 16 = us
    /\ last.op = "undo" =>
          /\ base.board = last.snap.base.board
          /\ base.hands = last.snap.base.hands

\* a capture has been taken back after it was played on a position reached by a
\* drop: the hand of the capturer is back to what it was
C30_Witness ==
    /\ last.op = "undo"
    /\ last.capture
    /\ Len(moves) = 1
    /\ is_drop(moves[1])

====
